---- MODULE Spec2Model ----
(***************************************************************************)
(* Scheduled audio-capture orchestrator of the Capital Radio backend:      *)
(* EnhancedStationRecordingService (app/utils/RecordingBackgroundUtil.py). *)
(*                                                                         *)
(* Two specifications share the module:                                    *)
(*   ResolverSpec  the schedule resolver (_get_current_session,            *)
(*                 _should_start_recording, _should_stop_recording) applied *)
(*                 to schedules and wall-clock instants drawn in Init;     *)
(*   Spec          the service itself: start(), stop(), one recording loop *)
(*                 task per station, the start action, the stop action and *)
(*                 finalization, with a wall clock in seconds.             *)
(***************************************************************************)
EXTENDS Integers, Sequences, FiniteSets, TLC

----------------------------------------------------------------------------
(* Bounds of the model *)

\* longest per-day session list drawn for the resolver
MaxSessions == 2
\* station loop tasks ever created
MaxTasks == 3
\* invocations of start() and stop() together
MaxCalls == 2
\* RadioSessionRecording rows ever created
MaxRecords == 2
\* unexpected errors raised inside a station loop iteration
MaxFaults == 1
\* seconds of wall clock explored after the service is constructed
MaxElapsed == 24
\* most accesses to a file that fail in a row before one succeeds
MaxLocked == 11

----------------------------------------------------------------------------
(* Time of day, sessions, schedules *)

DaySeconds == 24 * 3600

\* a time string "H:M" is the pair of its two fields, each the sequence of
\* its decimal digits; the empty string is <<>>
Pad2(n) == <<n \div 10, n % 10>>
Digits(n) == IF n < 10 THEN <<n>> ELSE Pad2(n)
\* "HH:MM", both fields of two digits
HM(h, m) == <<Pad2(h), Pad2(m)>>
\* the same time written without leading zeros, as in "1:23" or "12:3"
HMShort(h, m) == <<Digits(h), Digits(m)>>
NoTime == <<>>

RECURSIVE IntOf(_)
\* int(field)
IntOf(ds) ==
    IF ds = <<>> THEN 0
    ELSE IntOf(SubSeq(ds, 1, Len(ds) - 1)) * 10 + ds[Len(ds)]

\* a wall-clock instant of one day, in seconds since midnight
At(h, m, s) == h * 3600 + m * 60 + s

\* datetime.now(nairobi_tz).hour / .minute / .second
Hour(t) == t \div 3600
Minute(t) == (t % 3600) \div 60
Second(t) == t % 60

\* now.hour * 3600 + now.minute * 60 + now.second
CurrentSeconds(t) == Hour(t) * 3600 + Minute(t) * 60 + Second(t)

\* days of the model's calendar: day 0 is a Monday
DayNames == <<"monday", "tuesday">>
Days == 0 .. (Len(DayNames) - 1)
\* now.strftime('%A').lower()
DayName(d) == DayNames[d + 1]
\* now.strftime('%Y%m%d')
DateStr(d) == <<"20240101", "20240102">>[d + 1]

Session(st, en) == [start_time |-> st, end_time |-> en]

SMorning == Session(HM(9, 0), HM(10, 0))
SOverlap == Session(HM(9, 30), HM(10, 30))
SNight == Session(HM(23, 30), HM(0, 30))
SShort == Session(HM(9, 0), HM(9, 1))
SNext == Session(HM(9, 1), HM(9, 2))
SNoEnd == Session(HM(9, 0), NoTime)

\* _time_to_seconds: hour * 3600 + minute * 60, and 0 when the string does
\* not parse
_time_to_seconds(time_str) ==
    IF Len(time_str) = 2
    THEN IntOf(time_str[1]) * 3600 + IntOf(time_str[2]) * 60
    ELSE 0

\* truthiness of session.get('start_time') / session.get('end_time')
Truthy(time_str) == time_str # NoTime

\* variant of the match with the end instant excluded: [start, end)
_session_matches_half_open(session, current_seconds) ==
    /\ Truthy(session.start_time) /\ Truthy(session.end_time)
    /\ LET start_seconds == _time_to_seconds(session.start_time)
           end0 == _time_to_seconds(session.end_time)
           end_seconds == IF end0 <= start_seconds THEN end0 + DaySeconds ELSE end0
       IN  start_seconds <= current_seconds /\ current_seconds < end_seconds

\* the body of the for loop of _get_current_session: does this session make
\* the loop return
_session_matches(session, current_seconds) ==
    /\ Truthy(session.start_time) /\ Truthy(session.end_time)
    /\ LET start_seconds == _time_to_seconds(session.start_time)
           end0 == _time_to_seconds(session.end_time)
           end_seconds == IF end0 <= start_seconds THEN end0 + DaySeconds ELSE end0
       IN  start_seconds <= current_seconds /\ current_seconds <= end_seconds

RECURSIVE _scan_sessions(_, _)
\* for session in schedule.sessions[day_name]: return the first match
_scan_sessions(sessions, current_seconds) ==
    IF sessions = <<>> THEN <<>>
    ELSE IF _session_matches(Head(sessions), current_seconds)
         THEN <<Head(sessions)>>
         ELSE _scan_sessions(Tail(sessions), current_seconds)

\* _get_current_session(schedule) at wall-clock (d, t): <<>> is None, <<s>>
\* is the session returned.  A schedule is a function from day names to
\* session lists, <<>> when the station has no schedule row.
_get_current_session(sched, d, t) ==
    IF sched = <<>> \/ DOMAIN sched = {} \/ DayName(d) \notin DOMAIN sched
    THEN <<>>
    ELSE _scan_sessions(sched[DayName(d)], CurrentSeconds(t))

\* variant with a strict comparison: false at the start second itself
_should_start_recording_strict(session, t) ==
    CurrentSeconds(t) > _time_to_seconds(session.start_time)

\* _should_start_recording(session) at wall-clock t
_should_start_recording(session, t) ==
    CurrentSeconds(t) >= _time_to_seconds(session.start_time)

\* _should_stop_recording(session) at wall-clock t
_should_stop_recording(session, t) ==
    CurrentSeconds(t) >= _time_to_seconds(session.end_time)

----------------------------------------------------------------------------
VARIABLES
    now,        \* wall clock: seconds since midnight of the current day
    day,        \* wall clock: index of the current day
    schedule,   \* schedule store: station id -> (day name -> session list)
    res,        \* resolver: the last evaluation made and its result
    recording_processes, \* self.recording_processes: ordered dict key -> row id
    station_tasks,       \* self.station_tasks: ordered dict station id -> task
    tasks,      \* the station loop tasks (asyncio tasks), by task id
    sa,         \* activations of _stop_session_recording, by running coroutine
    calls,      \* invocations of start() / stop(), by call id
    recordings, \* RadioSessionRecording rows, by row id
    procs,      \* the ffmpeg process spawned for each row
    files,      \* the temp capture file of each row
    faults,     \* unexpected loop errors raised so far
    fop,        \* one run of a retrying file operation on one file
    fin,        \* one run of _finalize_recording with its store and its file
    val,        \* one run of validate_and_start with the system it finds
    kq,         \* the keys the station loop computes for one session instance
    shut,       \* one run of _save_station_recordings_on_shutdown
    stp         \* one run of _stop_session_recording on a process and a file

rvars == <<now, day, schedule, res>>
ovars == <<recording_processes, station_tasks, tasks, sa, calls, recordings,
           procs, files, faults>>
\* the variables of the specifications of single operations
xvars == <<fop, fin, val, kq, shut, stp>>
vars == <<now, day, schedule, res, recording_processes, station_tasks, tasks,
          sa, calls, recordings, procs, files, faults, fop, fin, val, kq, shut, stp>>

----------------------------------------------------------------------------
(* The service: configuration, stations, keys, dictionaries *)

\* self.check_interval
CheckInterval == 5
\* self.process_cleanup_timeout
ProcessCleanupTimeout == 20
\* await asyncio.sleep(3) of _start_ffmpeg_recording
ProbeDelay == 3
\* await asyncio.sleep(30) after the loop's stop action
GraceSleep == 30
\* asyncio.wait_for(task, timeout=10.0) of stop()
CancelWaitTimeout == 10
\* await asyncio.sleep(1.0) after a force kill (not on Windows)
KillDelay == 1
\* max_consecutive_errors of the station loop
MaxConsecutiveErrors == 5
\* cap of the loop's exponential backoff
MaxBackoff == 300

\* station ids are strings, here sequences of characters; the second id has
\* the first as a prefix
StationA == <<"7">>
StationB == <<"7", "1">>
\* the rows _get_active_stations returns, in query order
Stations == <<StationA>>
StationSet == { Stations[i] : i \in 1 .. Len(Stations) }

\* the service is constructed at 09:00:54 on day 0, six seconds before the
\* end of the first of the two sessions every station has on Monday
StartInstant == At(9, 0, 54)
ServiceSchedule == [dn \in {"monday"} |-> <<SShort, SNext>>]

\* start_time.replace(':', '')
HHMM(time_str) ==
    LET ds == time_str[1] \o time_str[2]
    IN  [i \in 1 .. Len(ds) |-> ToString(ds[i])]

\* f"{station_id}_{session_date}_{start_time.replace(':', '')}"
recording_key(station_id, d, session) ==
    station_id \o <<"_", DateStr(d), "_">> \o HHMM(session.start_time)

\* k.startswith(station_id)
startswith(k, station_id) ==
    /\ Len(k) >= Len(station_id)
    /\ SubSeq(k, 1, Len(station_id)) = station_id

\* insertion-ordered dicts: sequences of [key, val]
HasKey(d, k) == \E i \in 1 .. Len(d) : d[i].key = k
Get(d, k) == d[CHOOSE i \in 1 .. Len(d) : d[i].key = k].val
Put(d, k, v) ==
    IF HasKey(d, k)
    THEN [i \in 1 .. Len(d) |-> IF d[i].key = k THEN [key |-> k, val |-> v] ELSE d[i]]
    ELSE Append(d, [key |-> k, val |-> v])
Del(d, k) == SelectSeq(d, LAMBDA e : e.key # k)
Keys(d) == [i \in 1 .. Len(d) |-> d[i].key]
Vals(d) == [i \in 1 .. Len(d) |-> d[i].val]
Range(q) == { q[i] : i \in 1 .. Len(q) }

TaskIds == 1 .. MaxTasks
CallIds == (MaxTasks + 1) .. (MaxTasks + MaxCalls)
Coroutines == TaskIds \cup CallIds
\* the call of start() that validate_and_start makes
FirstCall == MaxTasks + 1

\* a station loop task.  pc is the await the task is suspended at:
\*   fetch     the store reads at the top of an iteration (lines 438-444)
\*   creating  _get_program / _create_recording_entry (lines 545-549)
\*   probe     asyncio.sleep(3) of _start_ffmpeg_recording (line 646)
\*   stopping  inside _stop_session_recording called by the loop (line 464)
\*   grace     asyncio.sleep(30) (line 466)
\*   sleep     asyncio.sleep(check_interval) (line 473)
\*   backoff   asyncio.sleep(backoff_delay) in the except handler (line 489)
\*   saving    inside _save_station_recordings_on_shutdown (line 477)
\*   done      the coroutine returned; cancelled: it ended by CancelledError
\* errs is consecutive_errors; fault is what went wrong in the iteration
\* before the present sleep, exit is why the loop left its while
NoTask == [station |-> <<>>, pc |-> "unborn", wake |-> 0, key |-> <<>>,
           session |-> <<>>, rid |-> 0, cancel |-> FALSE, errs |-> 0,
           pending |-> <<>>, fault |-> "none", exit |-> "none"]
FinishedTask(tk, how) == [NoTask EXCEPT !.station = tk.station, !.pc = how]
Finished(tk) == tk.pc \in {"done", "cancelled"}
Born(tk) == tk.pc # "unborn"

\* one activation of _stop_session_recording.  pc: idle, wait (process
\* cleanup wait), killwait (sleep after force kill), select, read, upload,
\* delete, commit (awaits of _finalize_recording), ret (returned)
NoSa == [pc |-> "idle", key |-> <<>>, rid |-> 0, wake |-> 0, staged |-> "none"]

\* one invocation of start() or stop()
NoCall == [kind |-> "none", pc |-> "idle", keys |-> <<>>, list |-> <<>>,
           cur |-> 0, wake |-> 0, snap |-> {}]

Terminal == {"completed", "failed"}

\* no file operation is running
NoFop == [op |-> "none", pc |-> "idle", exists |-> FALSE, existed |-> FALSE,
          content |-> <<>>, wlocked |-> 0, rlocked |-> 0, w0 |-> 0, r0 |-> 0,
          attempt |-> 0, checks |-> 0, slept |-> 0, ok |-> FALSE,
          data |-> <<>>]

\* the specifications of single operations are at rest
\* no finalization is being followed
NoFin == [pc |-> "idle", found |-> FALSE, file |-> NoFop, vanish |-> FALSE,
          relock |-> 0, upload_ok |-> FALSE, commit_ok |-> <<>>,
          row |-> <<>>, row0 |-> <<>>, recording |-> <<>>, read |-> "none",
          uploaded |-> FALSE, deleted |-> "none", commits |-> 0]

\* validate_and_start is not being followed
NoVal == [pc |-> "idle", ffmpeg_ok |-> TRUE, storage_ok |-> TRUE,
          db_ok |-> TRUE, permissions_ok |-> TRUE, raises |-> FALSE,
          available_gb |-> 0, memory_gb |-> 0, cpu_count |-> 0,
          network_ok |-> TRUE, is_valid |-> FALSE, errors |-> {},
          warnings |-> {}]

\* no key computation is being followed
NoKq == [pc |-> "idle", station |-> <<>>, session |-> <<>>, d |-> 0, t |-> 0,
         first |-> <<>>, last |-> <<>>, polls |-> 0, other |-> <<>>]

\* no shutdown save is being followed; table is recording_processes, with
\* the station whose loop registered each key as the value
NoShut == [pc |-> "idle", station |-> <<>>, table |-> <<>>, keys |-> <<>>,
           stopped |-> <<>>]

\* no stop is being followed; waited is the time spent in
\* _wait_for_process_cleanup, in tenths of a second, entry tells whether
\* the key is in recording_processes, erred whether the except handler of
\* the process part ran
NoStp == [pc |-> "idle", proc |-> "none", waited |-> 0, forced |-> FALSE,
          erred |-> FALSE, entry |-> FALSE, status |-> "recording"]

OperationsIdle ==
    /\ fop = NoFop /\ fin = NoFin /\ val = NoVal /\ kq = NoKq
    /\ shut = NoShut /\ stp = NoStp

ServiceConstructed ==
    /\ recording_processes = <<>>
    /\ station_tasks = <<>>
    /\ tasks = [t \in TaskIds |-> NoTask]
    /\ sa = [c \in Coroutines |-> NoSa]
    /\ calls = [c \in CallIds |-> NoCall]
    /\ recordings = <<>>
    /\ procs = <<>>
    /\ files = <<>>
    /\ faults = 0

----------------------------------------------------------------------------
(* ResolverSpec *)

ResolverSessions == {SMorning, SOverlap, SNight, SShort, SNoEnd}

RECURSIVE SeqsUpTo(_, _)
SeqsUpTo(S, n) ==
    IF n = 0 THEN {<<>>}
    ELSE LET shorter == SeqsUpTo(S, n - 1)
         IN  shorter \cup {Append(q, x) : q \in shorter, x \in S}

ResolverInstants ==
    { At(0, 0, 0), At(0, 15, 0), At(0, 30, 0), At(0, 30, 1),
      At(8, 59, 59), At(9, 0, 0), At(9, 0, 5), At(9, 0, 59), At(9, 1, 0),
      At(9, 1, 1), At(9, 59, 59), At(10, 0, 0), At(10, 0, 1),
      At(10, 30, 0), At(23, 29, 59), At(23, 30, 0), At(23, 45, 0),
      At(23, 59, 59) }

\* schedules of one station: a Monday list, and either no Tuesday key at all
\* or a Tuesday list of at most one session
ResolverSchedules ==
    { [dn \in {"monday"} |-> mon] : mon \in SeqsUpTo(ResolverSessions, MaxSessions) }
    \cup
    { [dn \in {"monday", "tuesday"} |-> IF dn = "monday" THEN mon ELSE tue] :
        mon \in SeqsUpTo(ResolverSessions, MaxSessions),
        tue \in SeqsUpTo({SNight, SMorning}, 1) }

ResolverStation == <<"7">>

NoRes == [op |-> "none", session |-> <<>>, cur |-> <<>>, flag |-> FALSE]

ResolverInit ==
    /\ now \in ResolverInstants
    /\ day \in Days
    /\ \E sch \in ResolverSchedules \cup {<<>>} :
          schedule = [s \in {ResolverStation} |-> sch]
    /\ res = NoRes
    /\ ServiceConstructed
    /\ OperationsIdle

\* sessions of the schedule that started on day d (listed under d's name)
ListedOn(sched, d) ==
    IF sched = <<>> \/ DayName(d) \notin DOMAIN sched THEN {}
    ELSE { sched[DayName(d)][i] : i \in 1 .. Len(sched[DayName(d)]) }

ListedSessions(sched) == UNION { ListedOn(sched, d) : d \in Days }

ResolveCurrent ==
    /\ res.op = "none"
    /\ res' = [op |-> "current", session |-> <<>>,
               cur |-> _get_current_session(schedule[ResolverStation], day, now),
               flag |-> FALSE]
    /\ UNCHANGED <<now, day, schedule>>
    /\ UNCHANGED ovars
    /\ UNCHANGED xvars

EvalShouldStart ==
    /\ res.op = "none"
    /\ \E session \in ListedSessions(schedule[ResolverStation]) :
          res' = [op |-> "start", session |-> <<session>>, cur |-> <<>>,
                  flag |-> _should_start_recording(session, now)]
    /\ UNCHANGED <<now, day, schedule>>
    /\ UNCHANGED ovars
    /\ UNCHANGED xvars

EvalShouldStop ==
    /\ res.op = "none"
    /\ \E session \in ListedSessions(schedule[ResolverStation]) :
          res' = [op |-> "stop", session |-> <<session>>, cur |-> <<>>,
                  flag |-> _should_stop_recording(session, now)]
    /\ UNCHANGED <<now, day, schedule>>
    /\ UNCHANGED ovars
    /\ UNCHANGED xvars

ResolverNext == ResolveCurrent \/ EvalShouldStart \/ EvalShouldStop

ResolverSpec == ResolverInit /\ [][ResolverNext]_vars

----------------------------------------------------------------------------
(* Spec: the service.  Every action is one run of a coroutine from the     *)
(* await it was suspended at to its next await; the code between two       *)
(* awaits is composed from the state transformers below.                   *)

Cur == [rp |-> recording_processes, st |-> station_tasks, tasks |-> tasks,
        sa |-> sa, calls |-> calls, recs |-> recordings, procs |-> procs,
        files |-> files, faults |-> faults]

Becomes(S) ==
    /\ recording_processes' = S.rp
    /\ station_tasks' = S.st
    /\ tasks' = S.tasks
    /\ sa' = S.sa
    /\ calls' = S.calls
    /\ recordings' = S.recs
    /\ procs' = S.procs
    /\ files' = S.files
    /\ faults' = S.faults
    /\ UNCHANGED <<now, day, schedule, res>>
    /\ UNCHANGED xvars

Alive(p) == p \in {"running", "terminating"}

\* _terminate_process: nothing when poll() is not None, else SIGTERM
_terminate_process(S, rid) ==
    IF S.procs[rid] = "running"
    THEN [S EXCEPT !.procs[rid] = "terminating"]
    ELSE S

\* variant of the stop action without the early return of lines 663-665: for
\* a key that is not registered it finalizes the latest row of that key again
_stop_session_recording_unguarded(S, c, k) ==
    LET same == { r \in 1 .. Len(S.recs) : S.recs[r].key = k }
    IN  IF HasKey(S.rp, k)
        THEN LET rid == Get(S.rp, k)
                 S1 == _terminate_process(S, rid)
             IN  IF Alive(S1.procs[rid])
                 THEN [S1 EXCEPT !.sa[c] = [NoSa EXCEPT !.pc = "wait", !.key = k,
                                            !.rid = rid,
                                            !.wake = now + ProcessCleanupTimeout]]
                 ELSE [S1 EXCEPT !.sa[c] = [NoSa EXCEPT !.pc = "select", !.key = k,
                                            !.rid = rid]]
        ELSE IF same = {}
             THEN [S EXCEPT !.sa[c] = [NoSa EXCEPT !.pc = "ret"]]
             ELSE [S EXCEPT !.sa[c] = [NoSa EXCEPT !.pc = "select", !.key = k,
                                       !.rid = CHOOSE r \in same : \A q \in same : q <= r]]

\* _stop_session_recording, lines 662-679, up to its first await: return when
\* the key is not registered, else signal the process and either start the
\* cleanup wait or, the process being gone already, go on to finalization
_stop_session_recording(S, c, k) ==
    IF ~HasKey(S.rp, k)
    THEN [S EXCEPT !.sa[c] = [NoSa EXCEPT !.pc = "ret"]]
    ELSE LET rid == Get(S.rp, k)
             S1 == _terminate_process(S, rid)
         IN  IF Alive(S1.procs[rid])
             THEN [S1 EXCEPT !.sa[c] = [NoSa EXCEPT !.pc = "wait", !.key = k,
                                        !.rid = rid,
                                        !.wake = now + ProcessCleanupTimeout]]
             ELSE [S1 EXCEPT !.sa[c] = [NoSa EXCEPT !.pc = "select", !.key = k,
                                        !.rid = rid]]

\* the end of a loop iteration: finally db.aclose(), consecutive_errors = 0,
\* asyncio.sleep(check_interval) (lines 468-473)
IterationEnd(S, t) ==
    [S EXCEPT !.tasks[t] = [NoTask EXCEPT !.station = S.tasks[t].station,
                            !.pc = "sleep", !.wake = now + CheckInterval]]

\* lines 461-466 of the loop, for the key and session held by task t
StopIfDue(S, t) ==
    LET tk == S.tasks[t]
    IN  IF HasKey(S.rp, tk.key) /\ _should_stop_recording(tk.session[1], now)
        THEN _stop_session_recording([S EXCEPT !.tasks[t].pc = "stopping"], t, tk.key)
        ELSE IterationEnd(S, t)

\* backoff_delay = min(self.check_interval * (2 ** consecutive_errors), 300)
BackoffDelay(n) ==
    LET d == CheckInterval * (2 ^ n) IN IF d < MaxBackoff THEN d ELSE MaxBackoff

\* the loop leaves its while by a break (lines 442, 485): the coroutine
\* returns
LoopBreak(tk, why, n) ==
    [FinishedTask(tk, "done") EXCEPT !.exit = why, !.errs = n]

\* the except Exception handler of the loop (lines 479-489)
LoopError(S, t) ==
    LET n == S.tasks[t].errs + 1
    IN  IF n >= MaxConsecutiveErrors
        THEN [S EXCEPT !.tasks[t] = LoopBreak(S.tasks[t], "errors", n),
                       !.faults = S.faults + 1]
        ELSE [S EXCEPT !.tasks[t] = [NoTask EXCEPT !.station = S.tasks[t].station,
                                     !.pc = "backoff", !.errs = n,
                                     !.fault = "error",
                                     !.wake = now + BackoffDelay(n)],
                       !.faults = S.faults + 1]

\* lines 445-447: no schedule row came back; the loop sleeps check_interval
\* and continues, which skips the reset of consecutive_errors
NoScheduleSleep(S, t, fault) ==
    [S EXCEPT !.tasks[t] = [NoTask EXCEPT !.station = S.tasks[t].station,
                            !.pc = "sleep", !.errs = S.tasks[t].errs,
                            !.fault = fault,
                            !.wake = now + CheckInterval]]

\* what can go wrong in an iteration: an unexpected exception; the query of
\* _get_station raising (caught there, None is returned, lines 495-497);
\* the station row gone or no longer active; the query of
\* _get_station_schedule raising (caught there, None is returned)
LoopFaults == {"error", "station_fetch", "inactive", "schedule_fetch"}

\* the iteration of task t meets fault f
LoopFault(S, t, f) ==
    IF f = "error" THEN LoopError(S, t)
    ELSE IF f \in {"station_fetch", "inactive"}
         THEN [S EXCEPT !.tasks[t] = LoopBreak(S.tasks[t], f, S.tasks[t].errs),
                        !.faults = S.faults + 1]
         ELSE [NoScheduleSleep(S, t, f) EXCEPT !.faults = S.faults + 1]

\* the loop body from the store reads to the next await (lines 434-459):
\* the iteration meets one of the faults in kinds, or it resolves the
\* session, computes the key and decides to start
Iteration(t, kinds) ==
    /\ tasks[t].pc = "fetch" /\ ~tasks[t].cancel
    /\ \/ /\ faults < MaxFaults
          /\ \E f \in kinds : Becomes(LoopFault(Cur, t, f))
       \/ LET tk == tasks[t]
              sched == schedule[tk.station]
              current_session == _get_current_session(sched, day, now)
          IN  IF sched = <<>>
              THEN Becomes(NoScheduleSleep(Cur, t, "none"))
              ELSE IF current_session = <<>>
              THEN Becomes(IterationEnd(Cur, t))
              ELSE LET k == recording_key(tk.station, day, current_session[1])
                       S1 == [Cur EXCEPT !.tasks[t].key = k,
                                         !.tasks[t].session = current_session]
                   IN  IF /\ _should_start_recording(current_session[1], now)
                          /\ ~HasKey(recording_processes, k)
                       THEN Becomes([S1 EXCEPT !.tasks[t].pc = "creating"])
                       ELSE Becomes(StopIfDue(S1, t))

\* an iteration with a store that answers: the only fault is an unexpected
\* exception
TaskResolve(t) == Iteration(t, {"error"})

\* an iteration with a store that can fail and a station that can be
\* deactivated or deleted
TaskPoll(t) == Iteration(t, LoopFaults)

\* scheduled_end_time of _create_recording_entry (lines 582-590), in seconds
\* since midnight of day 0: the session date combined with end_time, a day
\* later when that is not after the start
ScheduledEnd(d, session) ==
    LET st == _time_to_seconds(session.start_time)
        en == _time_to_seconds(session.end_time)
    IN  d * DaySeconds + (IF en <= st THEN en + DaySeconds ELSE en)

\* the row _create_recording_entry adds (lines 596-619); task is the loop
\* task that created it and writes counts the later commits to the row;
\* error is error_message, ended and duration tell whether actual_end_time
\* and duration_minutes are set (both columns are nullable and start NULL)
NewRow(t) == [station |-> tasks[t].station, key |-> tasks[t].key, task |-> t,
              scheduled_end |-> ScheduledEnd(day, tasks[t].session[1]),
              status |-> "recording", writes |-> 0,
              error |-> "None", ended |-> FALSE, duration |-> FALSE]

\* variant of the start failure that registers the capture all the same
StartFailedRegisters(S, rid) ==
    [S EXCEPT !.recs[rid].status = "failed",
              !.recs[rid].error = "Failed to start FFmpeg process",
              !.recs[rid].ended = TRUE,
              !.recs[rid].writes = S.recs[rid].writes + 1,
              !.rp = Put(S.rp, S.recs[rid].key, rid)]

\* recording_status = 'failed', error_message, actual_end_time and commit,
\* of _start_session_recording (lines 562-566)
StartFailed(S, rid) ==
    [S EXCEPT !.recs[rid].status = "failed",
              !.recs[rid].error = "Failed to start FFmpeg process",
              !.recs[rid].ended = TRUE,
              !.recs[rid].writes = S.recs[rid].writes + 1]

\* _start_session_recording, lines 545-552 and 623-646: the row is created
\* in status 'recording', then ffmpeg is spawned; Popen either raises
\* (FileNotFoundError: no process, the row is marked failed) or returns a
\* running process, which is probed after 3 seconds
TaskCreate(t) ==
    /\ tasks[t].pc = "creating" /\ ~tasks[t].cancel
    /\ Len(recordings) < MaxRecords
    /\ LET rid == Len(recordings) + 1
           S1 == [Cur EXCEPT !.recs = Append(recordings, NewRow(t)),
                             !.tasks[t].rid = rid]
       IN  \/ Becomes([S1 EXCEPT !.procs = Append(procs, "running"),
                                 !.files = Append(files, "pending"),
                                 !.tasks[t].pc = "probe",
                                 !.tasks[t].wake = now + ProbeDelay])
           \/ Becomes(StopIfDue(StartFailed(
                  [S1 EXCEPT !.procs = Append(procs, "none"),
                             !.files = Append(files, "none")], rid), t))

\* lines 647-653 and 553-567: process.poll() is None registers the capture,
\* otherwise the row is marked failed and nothing is registered
register_if_running(S, t) ==
    IF S.procs[S.tasks[t].rid] = "running"
    THEN [S EXCEPT !.rp = Put(S.rp, S.tasks[t].key, S.tasks[t].rid)]
    ELSE StartFailed(S, S.tasks[t].rid)

\* the task resumes from asyncio.sleep(3): liveness probe, registration, then
\* lines 461-473 of the loop
TaskProbe(t) ==
    /\ tasks[t].pc = "probe" /\ ~tasks[t].cancel
    /\ now >= tasks[t].wake
    /\ Becomes(StopIfDue(register_if_running(Cur, t), t))

\* the loop's _stop_session_recording returned: asyncio.sleep(30) (line 466)
TaskStopReturned(t) ==
    /\ tasks[t].pc = "stopping" /\ ~tasks[t].cancel
    /\ sa[t].pc = "ret"
    /\ Becomes([Cur EXCEPT !.sa[t] = NoSa,
                           !.tasks[t] = [NoTask EXCEPT !.station = tasks[t].station,
                                         !.pc = "grace",
                                         !.wake = now + GraceSleep]])

\* a sleep of the loop ends: after the grace sleep the iteration ends with
\* the check_interval sleep, after the others the next iteration begins
TaskWake(t) ==
    /\ tasks[t].pc \in {"sleep", "grace", "backoff"} /\ ~tasks[t].cancel
    /\ now >= tasks[t].wake
    /\ IF tasks[t].pc = "grace"
       THEN Becomes(IterationEnd(Cur, t))
       ELSE Becomes([Cur EXCEPT !.tasks[t].pc = "fetch", !.tasks[t].wake = 0])

\* the keys _save_station_recordings_on_shutdown collects (line 892)
ShutdownKeys(S, station_id) ==
    SelectSeq(Keys(S.rp), LAMBDA k : startswith(k, station_id))

\* _save_station_recordings_on_shutdown: stop the next collected key, or
\* return, which ends the task (lines 900-925, 478)
SaveNext(S, t, keys) ==
    IF keys = <<>>
    THEN [S EXCEPT !.tasks[t] = FinishedTask(S.tasks[t], "done"), !.sa[t] = NoSa]
    ELSE _stop_session_recording(
            [S EXCEPT !.tasks[t] = [NoTask EXCEPT !.station = S.tasks[t].station,
                                    !.pc = "saving", !.pending = Tail(keys)],
                      !.sa[t] = NoSa],
            t, Head(keys))

\* CancelledError is raised at the await the task is suspended at.  Inside
\* the loop's try block it is caught (line 475) and the shutdown save runs;
\* in the backoff sleep of the except handler and inside the shutdown save
\* itself nothing catches it (CancelledError is not an Exception) and the
\* task ends
DeliverCancel(S, t) ==
    IF S.tasks[t].pc \in {"backoff", "saving"}
    THEN [S EXCEPT !.tasks[t] = FinishedTask(S.tasks[t], "cancelled"), !.sa[t] = NoSa]
    ELSE SaveNext(S, t, ShutdownKeys(S, S.tasks[t].station))

TaskCancelled(t) ==
    /\ Born(tasks[t]) /\ ~Finished(tasks[t])
    /\ tasks[t].cancel
    /\ Becomes(DeliverCancel(Cur, t))

\* a _stop_session_recording of the shutdown save returned (line 907)
TaskSaveReturned(t) ==
    /\ tasks[t].pc = "saving" /\ ~tasks[t].cancel
    /\ sa[t].pc = "ret"
    /\ Becomes(SaveNext(Cur, t, tasks[t].pending))

\* a coroutine runs on unless it is a task with a cancellation pending
Runnable(c) == IF c \in CallIds THEN TRUE ELSE ~tasks[c].cancel

\* the process part of _stop_session_recording is over, whichever way:
\* step 3, _finalize_recording, begins (lines 699-702)
finalize_next(S, c) ==
    [S EXCEPT !.sa[c].pc = "select", !.sa[c].wake = 0]

\* _wait_for_process_cleanup returns True: the process has exited
SaWaitExited(c) ==
    /\ sa[c].pc = "wait" /\ Runnable(c)
    /\ ~Alive(procs[sa[c].rid])
    /\ Becomes(finalize_next(Cur, c))

\* _wait_for_process_cleanup times out: _force_kill_process, which kills
\* the process or fails (it returns False), then asyncio.sleep(1.0)
SaWaitTimeout(c) ==
    /\ sa[c].pc = "wait" /\ Runnable(c)
    /\ now >= sa[c].wake
    /\ Alive(procs[sa[c].rid])
    /\ \E killed \in BOOLEAN :
          Becomes([Cur EXCEPT !.procs[sa[c].rid] =
                                  IF killed THEN "exited" ELSE procs[sa[c].rid],
                              !.sa[c].pc = "killwait",
                              !.sa[c].wake = now + KillDelay])

\* the sleep after the force kill ends; finalization begins (line 704)
SaKillWaited(c) ==
    /\ sa[c].pc = "killwait" /\ Runnable(c)
    /\ now >= sa[c].wake
    /\ Becomes(finalize_next(Cur, c))

\* what ffmpeg has left on disk is observed when a finalization first looks:
\* "data" is a file with content, "none" a missing or empty file
FileSeen(rid) ==
    IF files[rid] = "pending" THEN {"none", "data"} ELSE {files[rid]}

\* _finalize_recording, lines 759-785 and 838-855: the row is loaded, the
\* file is checked; a missing or empty file stages 'failed', otherwise the
\* safe read begins
FinSelect(c) ==
    /\ sa[c].pc = "select" /\ Runnable(c)
    /\ \E f \in FileSeen(sa[c].rid) :
          LET S1 == [Cur EXCEPT !.files[sa[c].rid] = f]
          IN  IF f = "data"
              THEN Becomes([S1 EXCEPT !.sa[c].pc = "read"])
              ELSE Becomes([S1 EXCEPT !.sa[c].pc = "commit",
                                      !.sa[c].staged = "failed"])

\* _safe_file_read returns (lines 785-787, 831-837): it fails when the file
\* is gone or stays locked, and a failure stages 'failed'
FinRead(c) ==
    /\ sa[c].pc = "read" /\ Runnable(c)
    /\ \E ok \in BOOLEAN :
          IF ok /\ files[sa[c].rid] = "data"
          THEN Becomes([Cur EXCEPT !.sa[c].pc = "upload"])
          ELSE Becomes([Cur EXCEPT !.sa[c].pc = "commit",
                                   !.sa[c].staged = "failed"])

\* save_upload_file returns or raises (lines 801-830): success stages
\* 'completed' and the safe delete of the temp file begins, failure stages
\* 'failed' and keeps the file
FinUpload(c) ==
    /\ sa[c].pc = "upload" /\ Runnable(c)
    /\ \E ok \in BOOLEAN :
          IF ok
          THEN Becomes([Cur EXCEPT !.sa[c].pc = "delete",
                                   !.sa[c].staged = "completed"])
          ELSE Becomes([Cur EXCEPT !.sa[c].pc = "commit",
                                   !.sa[c].staged = "failed"])

\* _safe_file_delete returns (lines 814-818): the file is removed, or it is
\* not (a warning only)
FinDelete(c) ==
    /\ sa[c].pc = "delete" /\ Runnable(c)
    /\ \E ok \in BOOLEAN :
          Becomes([Cur EXCEPT !.files[sa[c].rid] =
                                  IF ok THEN "none" ELSE files[sa[c].rid],
                              !.sa[c].pc = "commit"])

\* await db.commit() of _finalize_recording (line 858): the staged status is
\* written to the row, with actual_end_time and duration_minutes (lines
\* 768-772, 805-811, 833-855) and the error message of a failure
commit_staged(S, c) ==
    LET rid == S.sa[c].rid
    IN  [S EXCEPT !.recs[rid].status = S.sa[c].staged,
                  !.recs[rid].error = IF S.sa[c].staged = "failed"
                                      THEN "Recording failed" ELSE "None",
                  !.recs[rid].ended = TRUE,
                  !.recs[rid].duration = TRUE,
                  !.recs[rid].writes = S.recs[rid].writes + 1]

\* the commit returns, _finalize_recording returns, the entry is removed
\* (lines 858, 705, 714-719) and _stop_session_recording returns
FinCommit(c) ==
    /\ sa[c].pc = "commit" /\ Runnable(c)
    /\ LET S1 == commit_staged(Cur, c)
       IN  Becomes([S1 EXCEPT !.rp = Del(S1.rp, sa[c].key),
                              !.sa[c] = [NoSa EXCEPT !.pc = "ret"]])

\* the capture process exits: on its own (stream lost, ffmpeg error) or after
\* the SIGTERM it was sent
ProcExit(rid) ==
    /\ rid <= Len(procs)
    /\ Alive(procs[rid])
    /\ Becomes([Cur EXCEPT !.procs[rid] = "exited"])

----------------------------------------------------------------------------
(* start() and stop() *)

NextTaskId(S) == CHOOSE t \in TaskIds : ~Born(S.tasks[t]) /\ \A u \in 1 .. (t - 1) : Born(S.tasks[u])

\* task.cancel(): a request the task sees at its await; nothing when done
RequestCancel(S, t) ==
    IF Finished(S.tasks[t]) THEN S ELSE [S EXCEPT !.tasks[t].cancel = TRUE]

\* asyncio.create_task(self._station_recording_loop(station.id)) and
\* self.station_tasks[station.id] = task (lines 422-426)
CreateTask(S, station_id) ==
    LET t == NextTaskId(S)
    IN  [S EXCEPT !.tasks[t] = [NoTask EXCEPT !.station = station_id, !.pc = "fetch"],
                  !.st = Put(S.st, station_id, t)]

RECURSIVE StartStations(_, _, _)
\* for station in stations: await self._start_station_task(station), run to
\* the first await that suspends: an existing task of the station is
\* cancelled and awaited (lines 414-420), then the new task is created
StartStations(S, c, list) ==
    IF list = <<>>
    THEN [S EXCEPT !.calls[c] = [NoCall EXCEPT !.kind = "start", !.pc = "done"]]
    ELSE LET station_id == Head(list)
         IN  IF HasKey(S.st, station_id) /\ ~Finished(S.tasks[Get(S.st, station_id)])
             THEN LET old == Get(S.st, station_id)
                  IN  [RequestCancel(S, old) EXCEPT
                          !.calls[c] = [NoCall EXCEPT !.kind = "start",
                                        !.pc = "s_await", !.cur = old,
                                        !.list = list]]
             ELSE StartStations(CreateTask(S, station_id), c, Tail(list))

InFlightStarts == Cardinality({c \in CallIds : calls[c].kind = "start" /\ calls[c].pc # "done"})
BornTasks == Cardinality({t \in TaskIds : Born(tasks[t])})

\* start() is called (validate_and_start, line 96): it awaits the active
\* stations
InvokeStart(c) ==
    /\ calls[c].kind = "none"
    /\ \A b \in CallIds : b < c => calls[b].kind # "none"
    /\ BornTasks + (InFlightStarts + 1) * Len(Stations) <= MaxTasks
    /\ Becomes([Cur EXCEPT !.calls[c] = [NoCall EXCEPT !.kind = "start",
                                         !.pc = "s_fetch"]])

\* _get_active_stations returned
StartFetched(c) ==
    /\ calls[c].pc = "s_fetch"
    /\ Becomes(StartStations(Cur, c, Stations))

\* await old_task returned (lines 417-420): create the station's new task and
\* go on with the remaining stations
StartAwaited(c) ==
    /\ calls[c].pc = "s_await"
    /\ Finished(tasks[calls[c].cur])
    /\ Becomes(StartStations(CreateTask(Cur, Head(calls[c].list)), c,
                             Tail(calls[c].list)))

\* stop(), step 2 and 3 (lines 371-393): cancel the next task of the
\* snapshot and wait for it, or, none being left, clear both dicts
CancelNext(S, c) ==
    LET cl == S.calls[c]
    IN  IF cl.list = <<>>
        THEN [S EXCEPT !.st = <<>>, !.rp = <<>>,
                       !.calls[c] = [NoCall EXCEPT !.kind = "stop", !.pc = "done"]]
        ELSE [RequestCancel(S, Head(cl.list)) EXCEPT
                 !.calls[c] = [cl EXCEPT !.pc = "x_wait", !.cur = Head(cl.list),
                               !.list = Tail(cl.list),
                               !.wake = now + CancelWaitTimeout]]

\* variant of stop() that goes straight to step 2, leaving the snapshot of
\* keys unstopped
StopSkipsStep1(S, c) ==
    CancelNext([S EXCEPT !.calls[c].keys = <<>>, !.calls[c].list = Vals(S.st)], c)

\* stop(), step 1 (lines 354-364): stop the next key of the snapshot; when
\* none is left take the snapshot of the station tasks (line 371)
StopNextKey(S, c) ==
    LET cl == S.calls[c]
    IN  IF cl.keys = <<>>
        THEN CancelNext([S EXCEPT !.calls[c].list = Vals(S.st)], c)
        ELSE _stop_session_recording(
                [S EXCEPT !.calls[c].keys = Tail(cl.keys),
                          !.calls[c].pc = "x_stopping"], c, Head(cl.keys))

\* stop() is called: active_recordings = list(self.recording_processes.keys())
InvokeStop(c) ==
    /\ calls[c].kind = "none"
    /\ \A b \in CallIds : b < c => calls[b].kind # "none"
    /\ Becomes(StopNextKey(
          [Cur EXCEPT !.calls[c] = [NoCall EXCEPT !.kind = "stop",
                                    !.keys = Keys(recording_processes),
                                    !.snap = Range(Vals(recording_processes))]], c))

\* a _stop_session_recording of step 1 returned
StopKeyReturned(c) ==
    /\ calls[c].pc = "x_stopping"
    /\ sa[c].pc = "ret"
    /\ Becomes(StopNextKey([Cur EXCEPT !.sa[c] = NoSa], c))

\* asyncio.wait_for(task, 10.0) returns: the task is done
StopWaitDone(c) ==
    /\ calls[c].pc \in {"x_wait", "x_wait2"}
    /\ Finished(tasks[calls[c].cur])
    /\ Becomes(CancelNext(Cur, c))

\* asyncio.wait_for times out: it cancels the task again and waits for it to
\* end before raising TimeoutError
StopWaitTimeout(c) ==
    /\ calls[c].pc = "x_wait"
    /\ now >= calls[c].wake
    /\ ~Finished(tasks[calls[c].cur])
    /\ Becomes([RequestCancel(Cur, calls[c].cur) EXCEPT !.calls[c].pc = "x_wait2",
                                                        !.calls[c].wake = 0])

----------------------------------------------------------------------------
(* The wall clock *)

\* something is due now: the clock does not pass it by.  Sleeps end on time,
\* cancellations and returns are delivered at once and store operations
\* complete within the second; the exit of a signalled process and the
\* upload take any time
TaskDue(t) ==
    /\ Born(tasks[t]) /\ ~Finished(tasks[t])
    /\ \/ tasks[t].cancel
       \/ tasks[t].pc = "fetch"
       \/ tasks[t].pc = "creating" /\ Len(recordings) < MaxRecords
       \/ tasks[t].pc \in {"sleep", "grace", "backoff", "probe"} /\ now >= tasks[t].wake
SaDue(c) ==
    \/ sa[c].pc \in {"ret", "select", "read", "delete", "commit"}
    \/ sa[c].pc = "wait" /\ (now >= sa[c].wake \/ ~Alive(procs[sa[c].rid]))
    \/ sa[c].pc = "killwait" /\ now >= sa[c].wake
CallDue(c) ==
    \/ calls[c].pc = "s_fetch"
    \/ calls[c].pc \in {"s_await", "x_wait", "x_wait2"} /\ Finished(tasks[calls[c].cur])
    \/ calls[c].pc = "x_wait" /\ now >= calls[c].wake

\* the deadlines of the pending sleeps and timed waits
Timers ==
    { tasks[t].wake : t \in { u \in TaskIds : tasks[u].pc \in {"sleep", "grace", "backoff", "probe"} } }
    \cup { sa[c].wake : c \in { u \in Coroutines : sa[u].pc \in {"wait", "killwait"} } }
    \cup { calls[c].wake : c \in { u \in CallIds : calls[u].pc = "x_wait" } }

\* time passes to the next deadline: start() and stop() are called, processes
\* exit and uploads end at the instant of construction or at an instant at
\* which a sleep or a timed wait of the service ends
Tick ==
    /\ \A t \in TaskIds : ~TaskDue(t)
    /\ \A c \in Coroutines : ~SaDue(c)
    /\ \A c \in CallIds : ~CallDue(c)
    /\ \E w \in Timers :
          /\ w > now /\ w <= StartInstant + MaxElapsed
          /\ \A v \in Timers : v > now => w <= v
          /\ now' = w
    /\ UNCHANGED <<day, schedule, res>>
    /\ UNCHANGED ovars
    /\ UNCHANGED xvars

Init ==
    /\ now = StartInstant
    /\ day = 0
    /\ schedule = [s \in StationSet |-> ServiceSchedule]
    /\ res = NoRes
    /\ ServiceConstructed
    /\ OperationsIdle

Next ==
    \/ Tick
    \/ \E rid \in 1 .. MaxRecords : ProcExit(rid)
    \/ \E c \in CallIds : InvokeStart(c)
    \/ \E c \in CallIds : StartFetched(c)
    \/ \E c \in CallIds : StartAwaited(c)
    \/ \E c \in CallIds : InvokeStop(c)
    \/ \E c \in CallIds : StopKeyReturned(c)
    \/ \E c \in CallIds : StopWaitDone(c)
    \/ \E c \in CallIds : StopWaitTimeout(c)
    \/ \E t \in TaskIds : TaskResolve(t)
    \/ \E t \in TaskIds : TaskCreate(t)
    \/ \E t \in TaskIds : TaskProbe(t)
    \/ \E t \in TaskIds : TaskStopReturned(t)
    \/ \E t \in TaskIds : TaskWake(t)
    \/ \E t \in TaskIds : TaskCancelled(t)
    \/ \E t \in TaskIds : TaskSaveReturned(t)
    \/ \E c \in Coroutines : SaWaitExited(c)
    \/ \E c \in Coroutines : SaWaitTimeout(c)
    \/ \E c \in Coroutines : SaKillWaited(c)
    \/ \E c \in Coroutines : FinSelect(c)
    \/ \E c \in Coroutines : FinRead(c)
    \/ \E c \in Coroutines : FinUpload(c)
    \/ \E c \in Coroutines : FinDelete(c)
    \/ \E c \in Coroutines : FinCommit(c)

Spec == Init /\ [][Next]_vars

----------------------------------------------------------------------------
(* RestartSpec: start() is invoked again, once or several times at once,   *)
(* on a service that is running: the station has its loop task, which is   *)
(* between two polls, and no schedule row, so nothing is captured.         *)

RestartInit ==
    /\ now = StartInstant
    /\ day = 0
    /\ schedule = [s \in StationSet |-> <<>>]
    /\ res = NoRes
    /\ recording_processes = <<>>
    /\ station_tasks = Put(<<>>, StationA, 1)
    /\ tasks = [t \in TaskIds |->
                 IF t = 1
                 THEN [NoTask EXCEPT !.station = StationA, !.pc = "sleep",
                                     !.wake = StartInstant + CheckInterval]
                 ELSE NoTask]
    /\ sa = [c \in Coroutines |-> NoSa]
    /\ calls = [c \in CallIds |-> NoCall]
    /\ recordings = <<>>
    /\ procs = <<>>
    /\ files = <<>>
    /\ faults = 0
    /\ OperationsIdle

RestartNext ==
    \/ Tick
    \/ \E c \in CallIds : InvokeStart(c)
    \/ \E c \in CallIds : StartFetched(c)
    \/ \E c \in CallIds : StartAwaited(c)
    \/ \E t \in TaskIds : TaskResolve(t)
    \/ \E t \in TaskIds : TaskWake(t)
    \/ \E t \in TaskIds : TaskCancelled(t)

RestartSpec == RestartInit /\ [][RestartNext]_vars

----------------------------------------------------------------------------
(* LoopSpec: start() is invoked once and the station loop runs against a   *)
(* store that can fail and a station that can be deactivated: at most      *)
(* MaxFaults iterations meet a fault.  The loop's stops happen after the   *)
(* process has exited: the cleanup timeout is longer than the time the     *)
(* specification follows.                                                  *)

LoopNext ==
    \/ Tick
    \/ \E rid \in 1 .. MaxRecords : ProcExit(rid)
    \/ InvokeStart(FirstCall)
    \/ StartFetched(FirstCall)
    \/ \E t \in TaskIds : TaskPoll(t)
    \/ \E t \in TaskIds : TaskCreate(t)
    \/ \E t \in TaskIds : TaskProbe(t)
    \/ \E t \in TaskIds : TaskStopReturned(t)
    \/ \E t \in TaskIds : TaskWake(t)
    \/ \E c \in TaskIds : SaWaitExited(c)
    \/ \E c \in TaskIds : FinSelect(c)
    \/ \E c \in TaskIds : FinRead(c)
    \/ \E c \in TaskIds : FinUpload(c)
    \/ \E c \in TaskIds : FinDelete(c)
    \/ \E c \in TaskIds : FinCommit(c)

LoopSpec == Init /\ [][LoopNext]_vars

----------------------------------------------------------------------------
(* FileOpsSpec: _is_file_locked, _safe_file_read and _safe_file_delete run *)
(* on one file.  fop holds the file (exists, content), what the            *)
(* environment does to it (wlocked / rlocked: how many more opens for      *)
(* read+write / opens for read and removals fail with PermissionError),    *)
(* and the position of the operation.  Delays are in half seconds.         *)

\* self.max_file_access_retries
MaxFileAccessRetries == 10
\* self.base_retry_delay (0.5 s)
BaseRetryDelay == 1
\* self.max_retry_delay (30.0 s)
MaxRetryDelay == 60

\* the exception classes the file operations meet; IOError is OSError, and
\* PermissionError and FileNotFoundError are subclasses of it
OSErrors == {"PermissionError", "FileNotFoundError"}
\* does "except cls" catch exception e
Catches(cls, e) ==
    \/ e = cls
    \/ cls \in {"IOError", "OSError"} /\ e \in OSErrors

\* what open(file_path, mode) / os.remove(file_path) raises on file F
OpenRaises(F, mode) ==
    IF ~F.exists THEN "FileNotFoundError"
    ELSE IF mode = "r+b" /\ F.wlocked > 0 THEN "PermissionError"
    ELSE IF mode # "r+b" /\ F.rlocked > 0 THEN "PermissionError"
    ELSE "none"

\* the file after one such access: one failing access fewer is left
AfterAccess(F, mode) ==
    IF ~F.exists THEN F
    ELSE IF mode = "r+b"
         THEN [F EXCEPT !.wlocked = IF F.wlocked > 0 THEN F.wlocked - 1 ELSE 0]
         ELSE [F EXCEPT !.rlocked = IF F.rlocked > 0 THEN F.rlocked - 1 ELSE 0]

\* _is_file_locked: the except clauses are tried in their order
_is_file_locked(F) ==
    LET e == OpenRaises(F, "r+b")
    IN  IF e = "none" THEN FALSE
        ELSE IF Catches("PermissionError", e) \/ Catches("IOError", e) THEN TRUE
        ELSE IF Catches("FileNotFoundError", e) THEN FALSE
        ELSE TRUE

\* delay = min(base_delay * (2 ** attempt), self.max_retry_delay)
RetryDelay(attempt) ==
    LET d == BaseRetryDelay * (2 ^ attempt)
    IN  IF d < MaxRetryDelay THEN d ELSE MaxRetryDelay

\* variant of the loop bound that gives up after two attempts
InRangeTwo(attempt) == attempt < 2

\* for attempt in range(max_retries): is there an iteration number attempt
InRange(attempt) == attempt < MaxFileAccessRetries

\* the operation returns
FopDone(F, ok, data) == [F EXCEPT !.pc = "done", !.ok = ok, !.data = data]

\* variant that goes on to the access loop whatever the unlock wait said
UnlockReturnedIgnored(F, unlocked) ==
    [F EXCEPT !.pc = "access", !.attempt = 0]

\* _wait_for_file_unlock returned (lines 228-229, 253-254): give up when the
\* file stayed locked, else enter the access loop
UnlockReturned(F, unlocked) ==
    IF unlocked THEN [F EXCEPT !.pc = "access", !.attempt = 0]
    ELSE FopDone(F, FALSE, <<>>)

\* one iteration of the loop of _wait_for_file_unlock (lines 201-208)
LockCheck(F) ==
    LET locked == _is_file_locked(F)
        F1 == [AfterAccess(F, "r+b") EXCEPT !.checks = F.checks + 1]
    IN  IF ~locked THEN UnlockReturned(F1, TRUE)
        ELSE LET F2 == [F1 EXCEPT !.slept = F1.slept + RetryDelay(F.attempt)]
             IN  IF InRange(F.attempt + 1)
                 THEN [F2 EXCEPT !.attempt = F.attempt + 1]
                 ELSE UnlockReturned(F2, FALSE)

\* one iteration of the read loop (lines 232-241) or of the delete loop
\* (lines 257-265)
Access(F) ==
    LET e == OpenRaises(F, "rb")
        F1 == AfterAccess(F, "rb")
    IN  IF e = "none"
        THEN IF F.op = "read" THEN FopDone(F1, TRUE, F.content)
             ELSE FopDone([F1 EXCEPT !.exists = FALSE], TRUE, <<>>)
        ELSE IF Catches("PermissionError", e) \/ Catches("IOError", e)
             THEN LET F2 == [F1 EXCEPT !.slept = F1.slept + RetryDelay(F.attempt)]
                  IN  IF InRange(F.attempt + 1)
                      THEN [F2 EXCEPT !.attempt = F.attempt + 1]
                      ELSE FopDone(F2, FALSE, <<>>)
             ELSE FopDone(F1, FALSE, <<>>)

\* _safe_file_read, lines 215-228, and _safe_file_delete, lines 249-253, with
\* the existence check of _wait_for_file_unlock (lines 197-199)
FopEnter(F) ==
    IF ~F.exists
    THEN FopDone(F, F.op = "delete", <<>>)
    ELSE IF F.op = "read" /\ Len(F.content) = 0
         THEN FopDone(F, FALSE, <<>>)
         ELSE [F EXCEPT !.pc = "unlock", !.attempt = 0]

FopFrame == UNCHANGED rvars /\ UNCHANGED ovars /\ UNCHANGED <<fin, val, kq, shut, stp>>

\* await self._is_file_locked(path), called on its own
FopIsLocked ==
    /\ fop.op = "is_locked" /\ fop.pc = "begin"
    /\ fop' = FopDone([AfterAccess(fop, "r+b") EXCEPT !.checks = 1],
                      _is_file_locked(fop), <<>>)
    /\ FopFrame

FopBegin ==
    /\ fop.op \in {"read", "delete"} /\ fop.pc = "begin"
    /\ fop' = FopEnter(fop)
    /\ FopFrame

FopLockCheck ==
    /\ fop.pc = "unlock"
    /\ fop' = LockCheck(fop)
    /\ FopFrame

FopAccess ==
    /\ fop.pc = "access"
    /\ fop' = Access(fop)
    /\ FopFrame

\* the capture file: absent, empty, or with content
FileContents == {<<>>, <<"I", "D", "3">>}

FileOpsInit ==
    /\ now = StartInstant
    /\ day = 0
    /\ schedule = [s \in StationSet |-> ServiceSchedule]
    /\ res = NoRes
    /\ ServiceConstructed
    /\ fin = NoFin /\ val = NoVal /\ kq = NoKq /\ shut = NoShut /\ stp = NoStp
    /\ \E op \in {"is_locked", "read", "delete"}, ex \in BOOLEAN,
          content \in FileContents, w \in 0 .. MaxLocked, r \in 0 .. MaxLocked :
          fop = [NoFop EXCEPT !.op = op, !.pc = "begin", !.exists = ex,
                              !.existed = ex, !.content = content,
                              !.wlocked = w, !.w0 = w, !.rlocked = r, !.r0 = r]

FileOpsNext == FopIsLocked \/ FopBegin \/ FopLockCheck \/ FopAccess

FileOpsSpec == FileOpsInit /\ [][FileOpsNext]_vars

----------------------------------------------------------------------------
(* FinalizeSpec: one run of _finalize_recording, with a store whose commit *)
(* can fail and a temp file that can be locked.  fin.row is the row in the *)
(* database, fin.recording the loaded object the code assigns to.          *)

\* a whole run of a retrying file operation
RECURSIVE RunFop(_)
RunFop(F) ==
    IF F.pc = "begin" THEN RunFop(FopEnter(F))
    ELSE IF F.pc = "unlock" THEN RunFop(LockCheck(F))
    ELSE IF F.pc = "access" THEN RunFop(Access(F))
    ELSE F

_safe_file_read(F) ==
    RunFop([F EXCEPT !.op = "read", !.pc = "begin", !.checks = 0, !.slept = 0])

_safe_file_delete(F) ==
    RunFop([F EXCEPT !.op = "delete", !.pc = "begin", !.checks = 0, !.slept = 0])

\* the row as _create_recording_entry writes it (lines 600-610)
FreshRow == [status |-> "recording", error |-> "None", file_path |-> "temp",
             file_url |-> "None", file_size_mb |-> "None", ended |-> FALSE]
\* the rows a finalization can find: fresh, marked failed by
\* _mark_recording_as_failed, or finalized before
FoundRows ==
    { FreshRow,
      [FreshRow EXCEPT !.status = "failed", !.ended = TRUE,
                       !.error = "Process ended unexpectedly"],
      [FreshRow EXCEPT !.status = "failed", !.ended = TRUE,
                       !.error = "Recording file not found"],
      [status |-> "completed", error |-> "None", file_path |-> "saved",
       file_url |-> "url", file_size_mb |-> "size", ended |-> TRUE] }

\* lines 805-811
mark_completed(R) ==
    [R EXCEPT !.status = "completed", !.ended = TRUE, !.file_path = "saved",
              !.file_url = "url", !.file_size_mb = "size", !.error = "None"]

\* lines 833-855: 'failed' with a message; the read failure also records
\* the temp path
mark_failed(R, msg) ==
    LET R1 == [R EXCEPT !.status = "failed", !.error = msg, !.ended = TRUE]
    IN  IF msg = "File read error" THEN [R1 EXCEPT !.file_path = "temp"] ELSE R1

\* variant of the upload error handler that leaves the status as it was
upload_failed_keeps_status(R) ==
    [R EXCEPT !.error = "File upload error", !.ended = TRUE,
              !.file_path = "temp"]

\* lines 823-830
upload_failed(R) ==
    [R EXCEPT !.status = "failed", !.error = "File upload error",
              !.ended = TRUE, !.file_path = "temp"]

\* lines 873-877
finalization_error(R) ==
    [R EXCEPT !.status = "failed", !.error = "Finalization error",
              !.ended = TRUE]

FinFrame == UNCHANGED rvars /\ UNCHANGED ovars /\ UNCHANGED <<fop, val, kq, shut, stp>>

\* lines 759-766: the row is selected; no row, return
FzSelect ==
    /\ fin.pc = "begin"
    /\ fin' = IF fin.found
              THEN [fin EXCEPT !.pc = "check", !.recording = fin.row]
              ELSE [fin EXCEPT !.pc = "done"]
    /\ FinFrame

\* lines 776-787 and 831-855: the file is looked at and read
FzCheck ==
    /\ fin.pc = "check"
    /\ LET Failed(msg) == [fin EXCEPT !.pc = "commit",
                              !.recording = mark_failed(fin.recording, msg)]
       IN  fin' =
             IF ~fin.file.exists THEN Failed("Recording file not found")
             ELSE IF fin.vanish
                  THEN [Failed("File check error") EXCEPT !.file.exists = FALSE]
             ELSE IF Len(fin.file.content) = 0
                  THEN Failed("Recording file is empty (0 bytes)")
             ELSE LET F == _safe_file_read(fin.file)
                  IN  IF F.ok /\ Len(F.data) > 0
                      THEN [fin EXCEPT !.pc = "upload", !.file = F,
                                       !.read = "ok"]
                      ELSE [Failed("File read error") EXCEPT !.file = F,
                                       !.read = "failed"]
    /\ FinFrame

\* lines 788-811 and 823-830: save_upload_file returns or raises
FzUpload ==
    /\ fin.pc = "upload"
    /\ fin' = IF fin.upload_ok
              THEN [fin EXCEPT !.pc = "delete", !.uploaded = TRUE,
                               !.recording = mark_completed(fin.recording)]
              ELSE [fin EXCEPT !.pc = "commit",
                               !.recording = upload_failed(fin.recording)]
    /\ FinFrame

\* lines 814-821: the temp file, locked again or not, is safely deleted
FzDelete ==
    /\ fin.pc = "delete"
    /\ LET F == _safe_file_delete([fin.file EXCEPT !.wlocked = fin.relock])
       IN  fin' = [fin EXCEPT !.pc = "commit", !.file = F,
                              !.deleted = IF F.ok THEN "ok" ELSE "failed"]
    /\ FinFrame

\* line 858: await db.commit() writes the object to the row, or raises
FzCommit ==
    /\ fin.pc = "commit"
    /\ fin' = IF fin.commit_ok[1]
              THEN [fin EXCEPT !.pc = "done", !.row = fin.recording,
                               !.commits = fin.commits + 1]
              ELSE [fin EXCEPT !.pc = "handler"]
    /\ FinFrame

\* lines 868-888: the object is marked failed and committed again; that
\* commit writes the handler's assignments, with or without the assignments
\* the failed commit had pending, or raises and the session is rolled back
FzHandler ==
    /\ fin.pc = "handler"
    /\ LET R == finalization_error(fin.recording)
       IN  \E base \in {fin.row, fin.recording} :
             fin' = IF fin.commit_ok[2]
                    THEN [fin EXCEPT !.pc = "done", !.recording = R,
                                     !.row = finalization_error(base),
                                     !.commits = fin.commits + 1]
                    ELSE [fin EXCEPT !.pc = "done", !.recording = R]
    /\ FinFrame

\* how often the temp file refuses to be opened when it is read
ReadLocks == {0, 2, MaxFileAccessRetries}
\* and when it is deleted
DeleteLocks == {0, MaxFileAccessRetries}

FinalizeInit ==
    /\ now = StartInstant
    /\ day = 0
    /\ schedule = [s \in StationSet |-> ServiceSchedule]
    /\ res = NoRes
    /\ ServiceConstructed
    /\ fop = NoFop /\ val = NoVal /\ kq = NoKq /\ shut = NoShut /\ stp = NoStp
    /\ \E found \in BOOLEAN, row \in FoundRows, ex \in BOOLEAN,
          content \in FileContents, w \in ReadLocks, rl \in DeleteLocks,
          vanish \in BOOLEAN, up \in BOOLEAN, c1 \in BOOLEAN, c2 \in BOOLEAN :
          /\ vanish => ex
          /\ fin = [NoFin EXCEPT
                      !.pc = "begin", !.found = found,
                      !.row = IF found THEN row ELSE <<>>,
                      !.row0 = IF found THEN row ELSE <<>>,
                      !.file = [NoFop EXCEPT !.exists = ex, !.existed = ex,
                                  !.content = content, !.wlocked = w, !.w0 = w],
                      !.vanish = vanish, !.relock = rl, !.upload_ok = up,
                      !.commit_ok = <<c1, c2>>]

FinalizeNext ==
    FzSelect \/ FzCheck \/ FzUpload \/ FzDelete \/ FzCommit \/ FzHandler

FinalizeSpec == FinalizeInit /\ [][FinalizeNext]_vars

----------------------------------------------------------------------------
(* ValidateSpec: one call of validate_and_start on a system whose checks   *)
(* pass or fail, followed by the start() it makes.                         *)

\* SystemValidator(min_disk_gb=5.0)
MinDiskGb == 5
\* resources['memory_gb'] < 1.0
MinMemoryGb == 1
\* resources['cpu_count'] < 2
MinCpuCount == 2

\* variant of the verdict that passes any report
ReportIsValidAlways(errors) == TRUE

\* is_valid = len(errors) == 0
ReportIsValid(errors) == errors = {}

\* validate_system: the checks in their order, every failed hard check
\* appends an error, every soft one a warning; an exception (raised here by
\* the resource check) appends an error and the report is invalid
validate_system(V) ==
    LET e1 == IF V.ffmpeg_ok THEN {} ELSE {"FFmpeg validation failed"}
        e2 == IF V.storage_ok THEN {} ELSE {"Storage validation failed"}
        w2 == IF V.storage_ok /\ V.available_gb < MinDiskGb
              THEN {"Low disk space"} ELSE {}
        e3 == IF V.db_ok THEN {} ELSE {"Database validation failed"}
        e4 == IF V.permissions_ok THEN {}
              ELSE {"File permissions validation failed"}
        w5 == (IF V.memory_gb < MinMemoryGb THEN {"Low memory"} ELSE {})
              \cup (IF V.cpu_count < MinCpuCount THEN {"Low CPU count"} ELSE {})
        w6 == IF V.network_ok THEN {} ELSE {"Network validation warning"}
        errors == e1 \cup e2 \cup e3 \cup e4
    IN  IF V.raises
        THEN [V EXCEPT !.errors = errors \cup {"Validation exception"},
                       !.warnings = w2, !.is_valid = FALSE]
        ELSE [V EXCEPT !.errors = errors, !.warnings = w2 \cup w5 \cup w6,
                       !.is_valid = ReportIsValid(errors)]

ValFrame == UNCHANGED rvars /\ UNCHANGED <<fop, fin, kq, shut, stp>>

\* self.validation_result = await self.validator.validate_system()
ValValidate ==
    /\ val.pc = "begin"
    /\ val' = [validate_system(val) EXCEPT !.pc = "validated"]
    /\ UNCHANGED ovars
    /\ ValFrame

\* lines 81-96: an invalid report raises SystemExit; a valid one, warnings or
\* not, goes on to the directory (which the storage check has made) and to
\* await self.start()
ValDecide ==
    /\ val.pc = "validated"
    /\ IF ~val.is_valid
       THEN /\ val' = [val EXCEPT !.pc = "exited"]
            /\ UNCHANGED calls
       ELSE /\ val' = [val EXCEPT !.pc = "starting"]
            /\ calls' = [calls EXCEPT ![FirstCall] = [NoCall EXCEPT !.kind = "start",
                                                !.pc = "s_fetch"]]
    /\ UNCHANGED <<recording_processes, station_tasks, tasks, sa, recordings,
                   procs, files, faults>>
    /\ ValFrame

\* start() returned (lines 98-103)
ValStarted ==
    /\ val.pc = "starting"
    /\ calls[FirstCall].pc = "done"
    /\ val' = [val EXCEPT !.pc = "started"]
    /\ UNCHANGED ovars
    /\ ValFrame

ValidateInit ==
    /\ now = StartInstant
    /\ day = 0
    /\ schedule = [s \in StationSet |-> ServiceSchedule]
    /\ res = NoRes
    /\ ServiceConstructed
    /\ fop = NoFop /\ fin = NoFin /\ kq = NoKq /\ shut = NoShut /\ stp = NoStp
    /\ \E f \in BOOLEAN, st \in BOOLEAN, d \in BOOLEAN, p \in BOOLEAN,
          x \in BOOLEAN, n \in BOOLEAN,
          gb \in {MinDiskGb - 1, MinDiskGb}, mem \in {MinMemoryGb - 1, MinMemoryGb},
          cpu \in {MinCpuCount - 1, MinCpuCount} :
          val = [NoVal EXCEPT !.pc = "begin", !.ffmpeg_ok = f, !.storage_ok = st,
                              !.db_ok = d, !.permissions_ok = p, !.raises = x,
                              !.network_ok = n, !.available_gb = gb,
                              !.memory_gb = mem, !.cpu_count = cpu]

ValidateNext ==
    ValValidate \/ ValDecide \/ (\E c \in CallIds : StartFetched(c)) \/ ValStarted

ValidateSpec == ValidateInit /\ [][ValidateNext]_vars

----------------------------------------------------------------------------
(* KeySpec: the recording keys the station loop computes, poll after poll, *)
(* for one instance of a session of a stored schedule, and the key of one  *)
(* other session.                                                          *)

\* the characters of a time string, as their order in the character set:
\* the digits, then ':'
Colon == 10
TimeString(time_str) ==
    IF time_str = NoTime THEN <<>> ELSE time_str[1] \o <<Colon>> \o time_str[2]

RECURSIVE StrLess(_, _)
\* a < b on strings
StrLess(a, b) ==
    IF b = <<>> THEN FALSE
    ELSE IF a = <<>> THEN TRUE
    ELSE IF Head(a) # Head(b) THEN Head(a) < Head(b)
    ELSE StrLess(Tail(a), Tail(b))

\* StationSchedule._is_valid_time: two fields that int() parses, in range
_is_valid_time(time_str) ==
    /\ Len(time_str) = 2
    /\ time_str[1] # <<>> /\ time_str[2] # <<>>
    /\ IntOf(time_str[1]) <= 23 /\ IntOf(time_str[2]) <= 59

\* StationSchedule._validate_session: no error for the two times
_validate_session(session) ==
    /\ _is_valid_time(session.start_time)
    /\ _is_valid_time(session.end_time)
    /\ StrLess(TimeString(session.start_time), TimeString(session.end_time))

SEarly == Session(HMShort(1, 23), HMShort(1, 25))
SNoon == Session(HMShort(12, 3), HMShort(12, 5))
SLate == Session(HM(19, 59), HMShort(2, 0))
\* the sessions update_station_schedule accepts among these
KeySessions ==
    { s \in {SShort, SNext, SEarly, SNoon, SLate, SNight} : _validate_session(s) }
KeyStations == {StationA, StationB}

\* the station has the session on every day
KeySchedule(session) == [dn \in Range(DayNames) |-> <<session>>]

KeyFrame == UNCHANGED rvars /\ UNCHANGED ovars /\ UNCHANGED <<fop, fin, val, shut, stp>>

\* one iteration of the station loop (lines 449-454, 468): the current
\* session is resolved, its key is computed, the loop sleeps check_interval;
\* with no current session the instance is over
KeyPoll ==
    /\ kq.pc = "poll"
    /\ LET current_session ==
               _get_current_session(KeySchedule(kq.session), kq.d, kq.t)
           recording_key_ ==
               recording_key(kq.station, kq.d, current_session[1])
           t1 == kq.t + CheckInterval
       IN  IF current_session = <<>> \/ (t1 >= DaySeconds /\ kq.d + 1 \notin Days)
           THEN kq' = [kq EXCEPT !.pc = "over"]
           ELSE kq' = [kq EXCEPT
                         !.first = IF kq.polls = 0 THEN recording_key_
                                   ELSE kq.first,
                         !.last = recording_key_,
                         !.polls = IF kq.polls = 0 THEN 1 ELSE 2,
                         !.t = t1 % DaySeconds,
                         !.d = IF t1 >= DaySeconds THEN kq.d + 1 ELSE kq.d]
    /\ KeyFrame

\* the key of another session, of any station and day, is computed
KeyOther ==
    /\ kq.pc = "over" /\ kq.polls > 0
    /\ \E station_id \in KeyStations, d \in Days, session \in KeySessions :
          kq' = [kq EXCEPT !.pc = "done",
                           !.other = [station |-> station_id, d |-> d,
                                      session |-> session,
                                      key |-> recording_key(station_id, d, session)]]
    /\ KeyFrame

KeyInit ==
    /\ now = StartInstant
    /\ day = 0
    /\ schedule = [s \in StationSet |-> ServiceSchedule]
    /\ res = NoRes
    /\ ServiceConstructed
    /\ fop = NoFop /\ fin = NoFin /\ val = NoVal /\ shut = NoShut /\ stp = NoStp
    /\ \E station_id \in KeyStations, session \in KeySessions :
          kq = [NoKq EXCEPT !.pc = "poll", !.station = station_id,
                            !.session = session,
                            !.t = _time_to_seconds(session.start_time)]

KeyNext == KeyPoll \/ KeyOther

KeySpec == KeyInit /\ [][KeyNext]_vars

----------------------------------------------------------------------------
(* ShutdownSpec: the loop of one station is cancelled while captures of    *)
(* that station and of another are registered, and runs                    *)
(* _save_station_recordings_on_shutdown(station_id).  The two station ids  *)
(* are "7" and "71".                                                       *)

\* the registered captures: key -> station whose loop registered it
ShutEntries ==
    { [key |-> recording_key(station_id, 0, session), val |-> station_id] :
        station_id \in KeyStations, session \in KeySessions }

\* the tables recording_processes can be: up to MaxRecords entries, no key
\* twice
ShutTables ==
    { q \in SeqsUpTo(ShutEntries, MaxRecords) :
        \A i, j \in 1 .. Len(q) : i # j => q[i].key # q[j].key }

ShutFrame ==
    UNCHANGED rvars /\ UNCHANGED ovars /\ UNCHANGED <<fop, fin, val, kq, stp>>

\* line 892: the keys to save are collected
ShutCollect ==
    /\ shut.pc = "cancelled"
    /\ shut' = [shut EXCEPT !.pc = "saving",
                            !.keys = ShutdownKeys([rp |-> shut.table],
                                                  shut.station)]
    /\ ShutFrame

\* lines 900-925: the next collected key is stopped: its capture is
\* finalized and its entry removed
ShutStop ==
    /\ shut.pc = "saving" /\ shut.keys # <<>>
    /\ LET k == Head(shut.keys)
       IN  shut' = [shut EXCEPT
                      !.keys = Tail(shut.keys),
                      !.table = Del(shut.table, k),
                      !.stopped = Append(shut.stopped,
                                         [key |-> k, val |-> Get(shut.table, k)])]
    /\ ShutFrame

\* the save returns
ShutReturn ==
    /\ shut.pc = "saving" /\ shut.keys = <<>>
    /\ shut' = [shut EXCEPT !.pc = "done"]
    /\ ShutFrame

ShutdownInit ==
    /\ now = StartInstant
    /\ day = 0
    /\ schedule = [s \in StationSet |-> ServiceSchedule]
    /\ res = NoRes
    /\ ServiceConstructed
    /\ fop = NoFop /\ fin = NoFin /\ val = NoVal /\ kq = NoKq /\ stp = NoStp
    /\ \E station_id \in KeyStations, table \in ShutTables :
          shut = [NoShut EXCEPT !.pc = "cancelled", !.station = station_id,
                               !.table = table]

ShutdownNext == ShutCollect \/ ShutStop \/ ShutReturn

ShutdownSpec == ShutdownInit /\ [][ShutdownNext]_vars

----------------------------------------------------------------------------
(* StopRunSpec: one run of _stop_session_recording on a registered key,    *)
(* from the wait for the process to the return, step by step: each poll of *)
(* _wait_for_process_cleanup, each lock check and each access of the file  *)
(* operations (the actions of FileOpsSpec on fop).  The process exits when *)
(* it likes or never, the force kill works or not, the file is there or    *)
(* not and is locked for as many accesses as the environment likes; the    *)
(* upload returns or raises; the process part can raise.  StopRunFair adds that the coroutine of the   *)
(* stop is scheduled again whenever it can run.                            *)

\* variant of the poll's sleep in which no time passes
WaitSleptNothing(waited) == waited

\* await asyncio.sleep(0.1) (line 136): the time waited, in tenths
WaitSlept(waited) == waited + 1

\* while time.time() - start_time < timeout (line 130), in tenths
WithinTimeout(waited) == waited < ProcessCleanupTimeout * 10

StpFrame ==
    UNCHANGED rvars /\ UNCHANGED ovars /\ UNCHANGED <<fin, val, kq, shut>>

\* variant of step 3 that removes the entry and returns without finalizing
StpRemoveUnfinalized(s) ==
    [s EXCEPT !.pc = "returned", !.waited = 0, !.entry = FALSE]

\* the process part of _stop_session_recording is over, whichever way:
\* step 3, _finalize_recording, begins (lines 699-702)
StpProcessPartOver(s) ==
    [s EXCEPT !.pc = "finalize", !.waited = 0]

\* one iteration of the loop of _wait_for_process_cleanup (lines 130-136)
StpPoll ==
    /\ stp.pc = "wait" /\ WithinTimeout(stp.waited)
    /\ stp' = IF ~Alive(stp.proc)
              THEN StpProcessPartOver(stp)
              ELSE [stp EXCEPT !.waited = WaitSlept(stp.waited)]
    /\ UNCHANGED fop
    /\ StpFrame

\* an exception is raised in the process part: the handler of lines
\* 694-697 force kills, which kills the process or fails, and sleeps
StpError ==
    /\ stp.pc = "wait" /\ WithinTimeout(stp.waited)
    /\ \E killed \in BOOLEAN :
          stp' = [stp EXCEPT !.pc = "killwait", !.waited = 0, !.erred = TRUE,
                             !.proc = IF killed /\ Alive(stp.proc)
                                      THEN "exited" ELSE stp.proc]
    /\ UNCHANGED fop
    /\ StpFrame

\* the loop ends, _wait_for_process_cleanup returns False (line 137):
\* _force_kill_process, which kills the process or fails, and the sleep
\* (lines 681-686)
StpTimeout ==
    /\ stp.pc = "wait" /\ ~WithinTimeout(stp.waited)
    /\ \E killed \in BOOLEAN :
          stp' = [stp EXCEPT !.pc = "killwait", !.waited = 0, !.forced = TRUE,
                             !.proc = IF killed /\ Alive(stp.proc)
                                      THEN "exited" ELSE stp.proc]
    /\ UNCHANGED fop
    /\ StpFrame

\* the sleep after the force kill ends (line 686)
StpKillWaited ==
    /\ stp.pc = "killwait"
    /\ stp' = StpProcessPartOver(stp)
    /\ UNCHANGED fop
    /\ StpFrame

\* a file operation of the finalization starts on the file as it is now
StpFile(op, ex, content, w, r) ==
    [NoFop EXCEPT !.op = op, !.pc = "begin", !.exists = ex, !.existed = ex,
                  !.content = content, !.wlocked = w, !.w0 = w,
                  !.rlocked = r, !.r0 = r]

\* _finalize_recording, lines 775-787 and 838-855: the file is looked at;
\* a file with content is read by _safe_file_read, else 'failed' is staged
StpFinalize ==
    /\ stp.pc = "finalize"
    /\ \E ex \in BOOLEAN, content \in FileContents,
          w \in 0 .. MaxLocked, r \in 0 .. MaxLocked :
          IF ex /\ content # <<>>
          THEN /\ stp' = [stp EXCEPT !.pc = "read"]
               /\ fop' = StpFile("read", ex, content, w, r)
          ELSE /\ stp' = [stp EXCEPT !.pc = "commit", !.status = "failed"]
               /\ UNCHANGED fop
    /\ StpFrame

\* _safe_file_read has returned (lines 785-787, 831-837)
StpReadDone ==
    /\ stp.pc = "read" /\ fop.pc = "done"
    /\ stp' = IF fop.ok /\ fop.data # <<>>
              THEN [stp EXCEPT !.pc = "upload"]
              ELSE [stp EXCEPT !.pc = "commit", !.status = "failed"]
    /\ UNCHANGED fop
    /\ StpFrame

\* save_upload_file returns or raises (lines 801-830); after a success the
\* temp file is deleted by _safe_file_delete
StpUpload ==
    /\ stp.pc = "upload"
    /\ \/ \E ex \in BOOLEAN, w \in 0 .. MaxLocked, r \in 0 .. MaxLocked :
             /\ stp' = [stp EXCEPT !.pc = "delete", !.status = "completed"]
             /\ fop' = StpFile("delete", ex, fop.content, w, r)
       \/ /\ stp' = [stp EXCEPT !.pc = "commit", !.status = "failed"]
          /\ UNCHANGED fop
    /\ StpFrame

\* _safe_file_delete has returned (lines 814-818)
StpDeleteDone ==
    /\ stp.pc = "delete" /\ fop.pc = "done"
    /\ stp' = [stp EXCEPT !.pc = "commit"]
    /\ UNCHANGED fop
    /\ StpFrame

\* the commit, the removal of the entry and the return (lines 858, 714)
StpCommit ==
    /\ stp.pc = "commit"
    /\ stp' = [stp EXCEPT !.pc = "returned", !.entry = FALSE]
    /\ UNCHANGED fop
    /\ StpFrame

\* the process exits
StpProcExit ==
    /\ stp.pc # "idle" /\ Alive(stp.proc)
    /\ stp' = [stp EXCEPT !.proc = "exited"]
    /\ UNCHANGED fop
    /\ StpFrame

\* the stop has sent SIGTERM (line 675) and enters the wait
StopRunInit ==
    /\ now = StartInstant
    /\ day = 0
    /\ schedule = [s \in StationSet |-> ServiceSchedule]
    /\ res = NoRes
    /\ ServiceConstructed
    /\ fop = NoFop /\ fin = NoFin /\ val = NoVal /\ kq = NoKq /\ shut = NoShut
    /\ \E p \in {"terminating", "exited"} :
          stp = [NoStp EXCEPT !.pc = "wait", !.proc = p, !.entry = TRUE]

\* the steps the coroutine that runs the stop takes by itself
StopRunSteps ==
    \/ StpPoll
    \/ StpTimeout
    \/ StpKillWaited
    \/ StpFinalize
    \/ FopBegin
    \/ FopLockCheck
    \/ FopAccess
    \/ StpReadDone
    \/ StpUpload
    \/ StpDeleteDone
    \/ StpCommit

\* with what may happen to it: an exception in the process part, the exit
\* of the process
StopRunNext == StopRunSteps \/ StpError \/ StpProcExit

StopRunSpec == StopRunInit /\ [][StopRunNext]_vars

\* the event loop resumes the coroutine when its sleep or await is over
StopRunFair == StopRunSpec /\ WF_vars(StopRunSteps)

----------------------------------------------------------------------------
(* Claims about the schedule resolver, checked under ResolverSpec *)

\* the claims' own reading of a "HH:MM" string, in seconds
ClaimSeconds(hm) == IntOf(hm[1]) * 3600 + IntOf(hm[2]) * 60
ClaimTimed(session) == session.start_time # <<>> /\ session.end_time # <<>>
ClaimOvernight(session) ==
    ClaimTimed(session)
    /\ ClaimSeconds(session.end_time) <= ClaimSeconds(session.start_time)
ClaimSameDay(session) ==
    ClaimTimed(session)
    /\ ClaimSeconds(session.start_time) < ClaimSeconds(session.end_time)
ClaimEnd(session) ==
    IF ClaimOvernight(session) THEN ClaimSeconds(session.end_time) + 86400
    ELSE ClaimSeconds(session.end_time)
\* the session's interval contains time-of-day cs; closed = the end included
ClaimContains(session, cs, closed) ==
    /\ ClaimTimed(session)
    /\ ClaimSeconds(session.start_time) <= cs
    /\ IF closed THEN cs <= ClaimEnd(session) ELSE cs < ClaimEnd(session)
TodaysList == 
    IF schedule[ResolverStation] = <<>> \/ DayName(day) \notin DOMAIN schedule[ResolverStation]
    THEN <<>> ELSE schedule[ResolverStation][DayName(day)]
\* the result is the first session of today's list that qualifies, or none
ClaimFirstMatch(closed) ==
    LET list == TodaysList
        Q(i) == ClaimContains(list[i], now, closed)
    IN  IF \E i \in 1 .. Len(list) : Q(i)
        THEN \E i \in 1 .. Len(list) :
                /\ Q(i) /\ \A j \in 1 .. (i - 1) : ~Q(j)
                /\ res.cur = <<list[i]>>
        ELSE res.cur = <<>>

\* C7 (as claimed): an overnight session 23:30-00:30 listed on Monday is
\* still reported as the current session at 00:15 on Tuesday.
C7_OvernightCurrentNextDay ==
    (/\ res.op = "current"
     /\ day = 1 /\ now = At(0, 15, 0)
     /\ schedule[ResolverStation] # <<>>
     /\ SNight \in ListedOn(schedule[ResolverStation], 0))
    => res.cur = <<SNight>>

\* C8 (as claimed): for an overnight session ShouldStop is false at every
\* instant from the session's start until midnight of the start day.
C8_OvernightNoStopBeforeMidnight ==
    (/\ res.op = "stop"
     /\ ClaimOvernight(res.session[1])
     /\ now >= ClaimSeconds(res.session[1].start_time))
    => res.flag = FALSE

\* C9 (as claimed): the resolver returns the first session of today's list
\* whose half-open interval [start, end) contains the time of day, so at
\* now = end the session is not returned.
C9_FirstMatchHalfOpen ==
    res.op = "current" => ClaimFirstMatch(FALSE)

\* C9 (amended): the resolver returns the first session, in list order of
\* today's list, whose closed interval [start, end] (end + 24h when
\* end <= start) contains the time of day, and none when no session
\* qualifies; at now = end the session is still returned.
C9_FirstMatchClosed ==
    res.op = "current" => ClaimFirstMatch(TRUE)

\* C9 witness: at 10:00:00 with <<09:00-10:00, 09:30-10:30>> both sessions
\* qualify and the first, whose end is now, is returned.
C9_Witness ==
    /\ res.op = "current" /\ now = At(10, 0, 0) /\ day = 0
    /\ schedule[ResolverStation] # <<>>
    /\ schedule[ResolverStation]["monday"] = <<SMorning, SOverlap>>
    /\ res.cur = <<SMorning>>

\* C10: for a same-day session ShouldStart holds iff the time of day is >=
\* the start and ShouldStop iff it is >= the end; for 09:00-10:00 ShouldStart
\* is true at 09:00:05 and false at 08:59:59, ShouldStop is false at
\* 09:59:59 and true at 10:00:00.
C10_StartStopSameDay ==
    /\ (res.op = "start" /\ ClaimSameDay(res.session[1]))
          => (res.flag <=> now >= ClaimSeconds(res.session[1].start_time))
    /\ (res.op = "stop" /\ ClaimSameDay(res.session[1]))
          => (res.flag <=> now >= ClaimSeconds(res.session[1].end_time))
    /\ (res.op = "start" /\ res.session = <<SMorning>> /\ now = At(9, 0, 5))
          => res.flag = TRUE
    /\ (res.op = "start" /\ res.session = <<SMorning>> /\ now = At(8, 59, 59))
          => res.flag = FALSE
    /\ (res.op = "stop" /\ res.session = <<SMorning>> /\ now = At(9, 59, 59))
          => res.flag = FALSE
    /\ (res.op = "stop" /\ res.session = <<SMorning>> /\ now = At(10, 0, 0))
          => res.flag = TRUE

\* C10 witness: ShouldStop of 09:00-10:00 evaluated at 10:00:00 is true.
C10_Witness ==
    /\ res.op = "stop" /\ res.session = <<SMorning>>
    /\ now = At(10, 0, 0) /\ res.flag = TRUE

----------------------------------------------------------------------------
(* Claims about the retrying file operations, checked under FileOpsSpec *)

\* C16 (as claimed): _is_file_locked returns true when the open for
\* read+write fails with a permission or I/O error, and false when the file
\* does not exist.
C16_IsLockedFalseWhenMissing ==
    (fop.op = "is_locked" /\ fop.pc = "done")
    => /\ (fop.existed /\ fop.w0 > 0) => fop.ok
       /\ ~fop.existed => ~fop.ok

\* C17: a safe read of an existing non-empty file whose accesses fail fewer
\* than max_retries times in a row (at the lock checks, at the reads) before
\* they succeed returns success with exactly the content of the file.
C17_SafeReadAfterTransientFailures ==
    (/\ fop.op = "read" /\ fop.pc = "done"
     /\ fop.existed /\ Len(fop.content) > 0
     /\ fop.w0 < MaxFileAccessRetries /\ fop.r0 < MaxFileAccessRetries)
    => fop.ok /\ fop.data = fop.content

\* C17 witness: two failed accesses, success at the third.
C17_Witness ==
    /\ fop.op = "read" /\ fop.pc = "done"
    /\ fop.w0 = 2 /\ fop.r0 = 0 /\ fop.checks = 3
    /\ fop.ok /\ fop.data = <<"I", "D", "3">>

\* C18: a safe delete of a file that is locked at every one of the
\* max_retries lock checks returns an error after max_retries checks and the
\* file is still on disk.
C18_SafeDeleteLockedFails ==
    (/\ fop.op = "delete" /\ fop.pc = "done"
     /\ fop.existed /\ fop.w0 >= MaxFileAccessRetries)
    => ~fop.ok /\ fop.exists /\ fop.checks = MaxFileAccessRetries

\* C18 witness: a delete of a locked file has returned.
C18_Witness ==
    /\ fop.op = "delete" /\ fop.pc = "done"
    /\ fop.existed /\ fop.w0 >= MaxFileAccessRetries
    /\ fop.checks = MaxFileAccessRetries /\ ~fop.ok

----------------------------------------------------------------------------
(* Claims about finalization, checked under FinalizeSpec *)

\* the capture file existed with content, the safe read and the upload
\* succeeded
FinalizedWell ==
    /\ fin.file.existed /\ Len(fin.file.content) > 0 /\ ~fin.vanish
    /\ fin.read = "ok" /\ fin.uploaded

\* C11 (as claimed): when finalization leaves the record 'failed', the temp
\* file that existed when it began is still on disk.
C11_FailedKeepsTempFile ==
    (/\ fin.pc = "done" /\ fin.found /\ fin.commits > 0
     /\ fin.row.status = "failed"
     /\ fin.file.existed /\ ~fin.vanish)
    => fin.file.exists

\* C12: finalization sets the record 'completed' only when the file existed
\* with content and the safe read and the upload succeeded, and then the
\* url, path and size are set and the error message is cleared; a failed
\* delete of the temp file leaves it 'completed'; in every other case the
\* record is set 'failed'.
C12_CompletedOnlyWhenSaved ==
    (fin.pc = "done" /\ fin.found)
    => /\ fin.recording.status \in Terminal
       /\ (fin.commits > 0 /\ fin.row.status = "completed")
            => /\ FinalizedWell
               /\ fin.row = [status |-> "completed", error |-> "None",
                              file_path |-> "saved", file_url |-> "url",
                              file_size_mb |-> "size", ended |-> TRUE]
       /\ (FinalizedWell /\ fin.commit_ok[1])
            => fin.row.status = "completed"
       /\ ~FinalizedWell
            => /\ fin.recording.status = "failed"
               /\ fin.commits > 0 => fin.row.status = "failed"

\* C12 witness: the upload succeeded, the delete of the temp file failed, and
\* the row that carried an error is 'completed' with the error cleared.
C12_Witness ==
    /\ fin.pc = "done" /\ fin.found /\ FinalizedWell
    /\ fin.deleted = "failed" /\ fin.file.exists
    /\ fin.row0.status = "failed"
    /\ fin.row.status = "completed" /\ fin.row.error = "None"

----------------------------------------------------------------------------
(* Claims about startup, checked under ValidateSpec *)

\* a hard check of the system fails
HardFailure ==
    \/ ~val.ffmpeg_ok \/ ~val.storage_ok \/ ~val.db_ok
    \/ ~val.permissions_ok \/ val.raises

SupervisorSpawned == \E t \in TaskIds : Born(tasks[t])

\* C15: when validation reports a hard failure the start is aborted and no
\* station task is created; station tasks are created exactly when the
\* report has no error, and warnings alone do not block the start.
C15_ValidationGatesStart ==
    /\ val.pc \notin {"idle", "begin"} => (val.errors # {} <=> HardFailure)
    /\ val.pc \in {"exited", "started"}
         => (val.pc = "started" <=> val.errors = {})
    /\ val.pc = "exited"
         => ~SupervisorSpawned /\ station_tasks = <<>>
            /\ \A c \in CallIds : calls[c].kind = "none"
    /\ SupervisorSpawned => val.errors = {}
    /\ val.pc = "started"
         => \A s \in StationSet :
               HasKey(station_tasks, s) /\ Born(tasks[Get(station_tasks, s)])
    /\ (val.pc = "validated" /\ val.errors = {}) => val.is_valid

\* C15 witness: the capture tool is missing, the start was aborted and no
\* station task exists.
C15_Witness ==
    /\ val.pc = "exited"
    /\ "FFmpeg validation failed" \in val.errors
    /\ ~SupervisorSpawned

----------------------------------------------------------------------------
(* Claims about recording keys, checked under KeySpec *)

\* C19 (as claimed): the key computed for a session instance is the same at
\* every poll of the instance, and two sessions that differ in station, in
\* date or in start time never have equal keys.
C19_KeyStableAndDistinct ==
    /\ kq.polls > 0 => kq.last = kq.first
    /\ (/\ kq.pc = "done"
        /\ \/ kq.other.station # kq.station
           \/ kq.other.d # 0
           \/ kq.other.session.start_time # kq.session.start_time)
       => kq.other.key # kq.first

----------------------------------------------------------------------------
(* Claims about the service, checked under Spec *)

Rows == 1 .. Len(recordings)
Registered(rid) == \E i \in 1 .. Len(recording_processes) : recording_processes[i].val = rid
StopCalls == { c \in CallIds : calls[c].kind = "stop" }

\* C1 (as claimed): when stop() finds a station task finished at its
\* wait_for (the task is reported cancelled), every row that task created in
\* status 'recording' is 'completed' or 'failed'.
C1_RowsTerminalWhenTaskReported ==
    \A c \in StopCalls :
        (calls[c].pc \in {"x_wait", "x_wait2"} /\ Finished(tasks[calls[c].cur]))
        => \A rid \in Rows :
              recordings[rid].task = calls[c].cur
              => recordings[rid].status \in Terminal

\* C2: finalize before cancel.  Whenever stop() has requested the
\* cancellation of a station task, it has called the stop action for every
\* key of the snapshot it took when invoked, each call has returned, and
\* every row of that snapshot has been finalized to 'completed' or 'failed'
\* and is no longer registered.
C2_FinalizeBeforeCancel ==
    \A c \in StopCalls :
        calls[c].pc \in {"x_wait", "x_wait2"}
        => /\ calls[c].keys = <<>>
           /\ sa[c].pc = "idle"
           /\ \A rid \in calls[c].snap :
                 /\ recordings[rid].status \in Terminal
                 /\ ~Registered(rid)

\* C2 witness: stop() was invoked with a capture registered and has now
\* requested the cancellation of the station task.
C2_Witness ==
    \E c \in StopCalls :
        /\ calls[c].pc = "x_wait"
        /\ calls[c].snap # {}
        /\ \A rid \in calls[c].snap : recordings[rid].status \in Terminal

\* C3 (as claimed): at every instant there is at most one live capture
\* process per RecordingKey, and at most one ActiveCapture entry per key.
C3_OneLiveProcessPerKey ==
    /\ \A r1, r2 \in Rows :
          (r1 # r2 /\ recordings[r1].key = recordings[r2].key)
          => ~(Alive(procs[r1]) /\ Alive(procs[r2]))
    /\ \A i, j \in 1 .. Len(recording_processes) :
          recording_processes[i].key = recording_processes[j].key => i = j

\* C4 (as claimed): a row is written at most once after its creation: once
\* it is 'completed' or 'failed' it is never written again.
C4_TerminalWrittenOnce ==
    \A rid \in Rows : recordings[rid].writes <= 1

\* C5 (as claimed): a running loop that polls after the end of a session it
\* has a capture registered for stops that capture; it never goes back to
\* its check_interval sleep, from a poll later than the scheduled end, with
\* the capture still registered.
C5_StoppedAtFirstPollAfterEnd ==
    \A t \in TaskIds : \A rid \in Rows :
        (/\ tasks[t].pc = "sleep"
         /\ recordings[rid].task = t
         /\ Registered(rid))
        => tasks[t].wake - CheckInterval <= recordings[rid].scheduled_end

\* C6 (as claimed): a station task that ends in the step that delivers a
\* cancellation to it leaves no ActiveCapture entry of its station
\* registered: the stop action and finalization ran for each of them first.
C6_CancelNeverSkipsFinalization ==
    [][\A t \in TaskIds :
          (/\ tasks[t].cancel /\ ~Finished(tasks[t])
           /\ Finished(tasks'[t]))
          => \A i \in 1 .. Len(recording_processes') :
                recordings'[recording_processes'[i].val].station # tasks[t].station]_vars

\* C13: the stop action called for the key of a row whose first stop action
\* has finalized it and removed the entry is a no-op: it returns at once, no
\* process is signalled, no finalization begins, no row is written and the
\* table is unchanged.
C13_SecondStopIsNoOp ==
    \A c \in Coroutines : \A rid \in Rows :
        (/\ sa[c].pc = "idle"
         /\ recordings[rid].status \in Terminal
         /\ ~HasKey(recording_processes, recordings[rid].key))
        => _stop_session_recording(Cur, c, recordings[rid].key)
             = [Cur EXCEPT !.sa[c] = [NoSa EXCEPT !.pc = "ret"]]

\* C13 witness: a capture was registered, a stop action has finalized its
\* row (the file was looked at, the row is terminal) and removed the entry.
C13_Witness ==
    \E rid \in Rows :
        /\ procs[rid] # "none" /\ files[rid] # "pending"
        /\ recordings[rid].status \in Terminal
        /\ recordings[rid].writes = 1
        /\ ~HasKey(recording_processes, recordings[rid].key)

\* C14 (as claimed): a repeated start() stops no capture in progress: the
\* task a start() has cancelled and is waiting for never runs the shutdown
\* save.
C14_RepeatedStartKeepsCaptures ==
    \A c \in CallIds :
        (calls[c].kind = "start" /\ calls[c].pc = "s_await")
        => tasks[calls[c].cur].pc # "saving"

\* C20 (as claimed): one station loop makes at most one capture attempt per
\* recording key: no two rows created by the same task have the same key.
C20_OneAttemptPerKey ==
    \A r1, r2 \in Rows :
        (r1 # r2 /\ recordings[r1].task = recordings[r2].task)
        => recordings[r1].key # recordings[r2].key

\* the rows a station has registered in recording_processes
StationEntries(station_id) ==
    { i \in 1 .. Len(recording_processes) :
        recordings[recording_processes[i].val].station = station_id }

\* C27 (as claimed): every station has at most one registered capture at
\* every instant, so a capture of a new session is never started while the
\* capture of an earlier session of the station is registered.
C27_OneCapturePerStation ==
    \A s \in StationSet : Cardinality(StationEntries(s)) <= 1

\* C28 (as claimed): every spawned capture process that is still running is
\* registered in recording_processes, or is in the liveness-probe delay of
\* the start that spawned it.
C28_LiveProcessesTracked ==
    \A rid \in Rows :
        Alive(procs[rid])
        => \/ Registered(rid)
           \/ \E t \in TaskIds : tasks[t].pc = "probe" /\ tasks[t].rid = rid

\* the loop tasks of a station that have not ended
RunningTasks(s) ==
    { t \in TaskIds : Born(tasks[t]) /\ ~Finished(tasks[t]) /\ tasks[t].station = s }

\* C30 (as claimed), checked under RestartSpec: at most one loop task runs
\* per station, and a running loop task is the one station_tasks records
\* for its station.
C30_OneRegisteredTaskPerStation ==
    \A s \in StationSet :
        /\ Cardinality(RunningTasks(s)) <= 1
        /\ \A t \in RunningTasks(s) :
              HasKey(station_tasks, s) /\ Get(station_tasks, s) = t

\* C21 (as claimed), checked under LoopSpec: a loop that ended because of
\* errors had counted MaxConsecutiveErrors of them, and a loop that met a
\* failure in its last iteration and now sleeps is in the backoff sleep of
\* its error count.
C21_ErrorsEndLoopAfterFiveOnly ==
    \A t \in TaskIds :
        /\ tasks[t].exit \in {"errors", "station_fetch"}
           => tasks[t].errs = MaxConsecutiveErrors
        /\ (tasks[t].fault # "none" /\ tasks[t].pc \in {"sleep", "backoff"})
           => /\ tasks[t].pc = "backoff"
              /\ tasks[t].errs >= 1
              /\ tasks[t].wake <= now + BackoffDelay(tasks[t].errs)

\* C29 (as claimed), checked under LoopSpec: a loop that left its while on its own has no capture
\* of its own left in recording_processes.
C29_NoCaptureLeftByEndedLoop ==
    \A t \in TaskIds :
        tasks[t].exit # "none"
        => \A i \in StationEntries(tasks[t].station) :
              recordings[recording_processes[i].val].task # t

\* the rows in a terminal status
TerminalRows == { rid \in Rows : recordings[rid].status \in {"completed", "failed"} }

\* C24 (as claimed): every row in a terminal status has actual_end_time and
\* duration_minutes set.
C24_TerminalRowsHaveEndAndDuration ==
    \A rid \in TerminalRows :
        recordings[rid].ended /\ recordings[rid].duration

\* the start of task t completes in this step having found no running
\* process: the spawn fails, or the probe after the start delay finds the
\* process exited
StartFindsNoProcess(t) ==
    /\ ~tasks[t].cancel
    /\ \/ tasks[t].pc = "creating" /\ tasks'[t].pc \notin {"creating", "probe"}
       \/ /\ tasks[t].pc = "probe" /\ tasks'[t].pc # "probe"
          /\ ~Alive(procs[tasks[t].rid])

\* the row of the start that task t completes in this step
StartedRow(t) ==
    IF tasks[t].pc = "creating" THEN Len(recordings) + 1 ELSE tasks[t].rid

\* C23: a start that finds no running process leaves its row 'failed' with
\* an error message and registers no entry for the row.
C23_FailedStartMarksRowAndRegistersNothing ==
    [][\A t \in TaskIds :
          StartFindsNoProcess(t)
          => /\ recordings'[StartedRow(t)].status = "failed"
             /\ recordings'[StartedRow(t)].error # "None"
             /\ \A i \in 1 .. Len(recording_processes') :
                   recording_processes'[i].val # StartedRow(t)]_vars

\* C23 witness: a process that had exited when it was probed; its row is
\* failed with the start's message and is not registered.
C23_Witness ==
    \E rid \in Rows :
        /\ procs[rid] = "exited"
        /\ recordings[rid].status = "failed"
        /\ recordings[rid].error = "Failed to start FFmpeg process"
        /\ ~Registered(rid)

\* C22, checked under StopRunSpec: the stop leaves the process part, by the
\* exit of the process, by the timeout and force kill or by an error, only
\* into finalization; it returns only from the commit that ends the
\* finalization, with the row in a terminal status; and the entry is
\* removed in that step only.
C22_FinalizeThenRemove ==
    [][/\ (stp.pc = "wait" /\ stp'.pc # "wait")
          => stp'.pc \in {"killwait", "finalize"}
       /\ (stp.pc = "killwait" /\ stp'.pc # "killwait")
          => stp'.pc = "finalize"
       /\ (stp.pc # "returned" /\ stp'.pc = "returned")
          => /\ stp.pc = "commit"
             /\ stp'.status \in {"completed", "failed"}
       /\ (stp.entry /\ ~stp'.entry)
          => stp.pc = "commit" /\ stp'.pc = "returned"]_vars

\* C22 witness: a stop whose process part raised has finalized its row and
\* has then removed its entry.
C22_Witness ==
    /\ stp.pc = "returned" /\ stp.erred
    /\ stp.status \in {"completed", "failed"}
    /\ ~stp.entry

\* C25 (as claimed), checked under ShutdownSpec: the captures a cancelled
\* station loop finalizes are captures of its own station.
C25_SaveTouchesOwnKeysOnly ==
    \A i \in 1 .. Len(shut.stopped) : shut.stopped[i].val = shut.station

\* C26, checked under StopRunFair: the wait for the process never exceeds
\* the cleanup timeout, a file operation makes at most MaxFileAccessRetries
\* lock checks and at most MaxFileAccessRetries accesses, and the stop
\* returns.
C26_StopTerminates ==
    /\ [](/\ stp.waited <= ProcessCleanupTimeout * 10
          /\ fop.checks <= MaxFileAccessRetries
          /\ fop.attempt < MaxFileAccessRetries)
    /\ <>(stp.pc = "returned")

\* C26 witness: the stop has returned after the wait timed out, the force
\* kill failed, the read succeeded and the delete gave up on a file that
\* stayed locked.
C26_Witness ==
    /\ stp.pc = "returned"
    /\ stp.forced /\ Alive(stp.proc)
    /\ fop.op = "delete" /\ fop.pc = "done" /\ ~fop.ok
    /\ fop.checks + fop.attempt + 1 >= MaxFileAccessRetries

====
